---- MODULE Spec2Model ----
(***************************************************************************)
(* Model of the sharedcontext synchronisation engine: the local store      *)
(* (core/db.ts), the shard model (core/shard.ts), the background push of   *)
(* dirty facts (src/index.ts, syncDirtyFacts) and the restore on a fresh   *)
(* machine (core/sync.ts, pullAndReconstruct; cli/init.ts), and the push   *)
(* and pull of conversation segments (core/watcher.ts, core/sync.ts).      *)
(***************************************************************************)
EXTENDS Integers, Sequences, FiniteSets, Bags, TLC

VARIABLES
    db,          \* the writer's local store: [facts, pending, meta]
    pushes,      \* the syncDirtyFacts calls suspended on an upload
    ledger,      \* the bag of data transactions on the ledger for the wallet
    identity,    \* the wallet's identity record as the ledger serves it
    restored,    \* outcome of the latest pullAndReconstruct on a fresh machine
    deletedKeys, \* history: keys whose latest local mutation is a deleteFact
    lastAbort,   \* history: what the latest aborted push had already uploaded
    serial,      \* history: no tool call or tick has yet run during a push
    cli,         \* the restore command on the fresh machine: position and files
    opLog,       \* history: the latest store operations, oldest first
    transcript,  \* the transcript file of the session: messages and revision
    fileStates,  \* the watcher's record of the file: revision last seen, 0 if none
    uploads,     \* the watcher callbacks suspended on a chunk upload
    convLedger,  \* the bag of conversation chunk transactions on the ledger
    retryDue,    \* history: a conversation push failed part-way since the last poll
    now,         \* the wall clock, in seconds
    call,        \* the store call of a process, between two of its statements
    eval,        \* a call of a shard function: its arguments and what it returned
    pushCmd,     \* the push command: its position and queue; the shard files
    identityTxs  \* the identity transactions uploaded for the wallet

convVars == <<transcript, fileStates, uploads, convLedger, retryDue, now>>

auxVars == <<call, eval, pushCmd, identityTxs>>

vars == <<db, pushes, ledger, identity, restored, deletedKeys, lastAbort, serial,
          cli, opLog, convVars, auxVars>>

----------------------------------------------------------------------------
(* Bounds of the model. *)

MaxInFlight == 2     \* syncDirtyFacts calls suspended at the same time
MaxLedger == 2       \* data transactions on the ledger
MaxTagVersion == 2   \* highest Version tag of a transaction put on the ledger
MaxRevisions == 3    \* writes to the transcript file

\* Store operations remembered by the history variable opLog.
MaxLog == 3

\* Highest access_count the recall of a fact is followed to.
MaxAccessCount == 1

MaxIdentityTxs == 2  \* identity transactions uploaded for the wallet
MaxOps == 3          \* operations passed to createChunkedShards
MaxShards == 2       \* shards passed to replayShards

\* The keys delete_fact is called with: the full keys of the stored facts.
Keys == {"global:k1", "project:p:k2"}

\* The (key, value, scope) arguments store_fact is called with.
StoreInputs ==
    { <<"global:k1", "short", "global">>,
      <<"global:k1", "long", "project:p">>,
      <<"k2", "long", "project:p">> }

\* The keys among them that start with "global:" or "project:".
PrefixedKeys == {"global:k1"}

----------------------------------------------------------------------------
(* Generic helpers. *)

Null == "<null>"
Undefined == "<undefined>"

RemoveAt(s, i) == SubSeq(s, 1, i - 1) \o SubSeq(s, i + 1, Len(s))

MaxOf(S) == CHOOSE x \in S : \A y \in S : y <= x

\* String(n) of a non-negative integer, as written to the meta table.
String(n) == ToString(n)

\* parseInt(s, 10) of a decimal string written by String.
ParseInt(s) ==
    CHOOSE n \in 0..(MaxLedger + MaxTagVersion + MaxRevisions) : ToString(n) = s

----------------------------------------------------------------------------
(* core/db.ts : the local store. *)

\* `conversation_offset:${conversation.client}:${conversation.id}` of the
\* session of the model, a cursor transcript.
StateKey == "conversation_offset:cursor:s1"

MetaKeys == {"current_version", "last_pushed_version", "wallet_address",
             "identity_pushed", StateKey}

Wallet == "0xwallet"

\* openDatabase on a path with no file: three empty tables.
EmptyDb == [facts |-> <<>>, pending |-> <<>>, meta |-> [k \in MetaKeys |-> Null]]

GetMeta(d, key) == d.meta[key]

SetMeta(d, key, value) == [d EXCEPT !.meta[key] = value]

HasFact(d, key) == \E i \in 1..Len(d.facts) : d.facts[i].key = key

GetFact(d, key) ==
    IF HasFact(d, key)
    THEN d.facts[CHOOSE i \in 1..Len(d.facts) : d.facts[i].key = key]
    ELSE Null

\* INSERT ... ON CONFLICT(key) DO UPDATE SET ..., dirty = 1.
InsertOrUpdateRow(d, fact) ==
    LET row == [key |-> fact.key, value |-> fact.value, scope |-> fact.scope,
                created |-> IF HasFact(d, fact.key) THEN GetFact(d, fact.key).created
                            ELSE fact.created,
                last_confirmed |-> fact.last_confirmed,
                access_count |-> fact.access_count,
                dirty |-> 1]
    IN [d EXCEPT !.facts = IF HasFact(d, fact.key)
                           THEN [i \in 1..Len(d.facts) |->
                                    IF d.facts[i].key = fact.key THEN row
                                    ELSE d.facts[i]]
                           ELSE Append(d.facts, row)]

\* DELETE FROM pending_deletes WHERE key = ?
RemoveTombstone(d, key) ==
    [d EXCEPT !.pending = SelectSeq(d.pending, LAMBDA k : k # key)]

\* upsertFact without its DELETE FROM pending_deletes.
UpsertFactKeepsTombstone(d, fact) == InsertOrUpdateRow(d, fact)

\* The row is written, then the tombstone of the key is removed.
UpsertFact(d, fact) == RemoveTombstone(InsertOrUpdateRow(d, fact), fact.key)

\* deleteFact without its test of exists.
DeleteFactAlwaysTombstones(d, key) ==
    [d EXCEPT !.facts = SelectSeq(d.facts, LAMBDA r : r.key # key),
              !.pending = Append(SelectSeq(d.pending, LAMBDA k : k # key), key)]

\* DELETE FROM facts WHERE key = ?
DeleteRow(d, key) ==
    [d EXCEPT !.facts = SelectSeq(d.facts, LAMBDA r : r.key # key)]

\* INSERT OR REPLACE INTO pending_deletes.
InsertTombstone(d, key) ==
    [d EXCEPT !.pending = Append(SelectSeq(d.pending, LAMBDA k : k # key), key)]

\* The row is removed; a tombstone is written only if the row existed.
DeleteFact(d, key) ==
    LET exists == HasFact(d, key)
    IN IF exists THEN InsertTombstone(DeleteRow(d, key), key)
       ELSE DeleteRow(d, key)

GetDirtyFacts(d) == SelectSeq(d.facts, LAMBDA r : r.dirty = 1)

GetPendingDeletes(d) == d.pending

\* clearDirtyState without its DELETE FROM pending_deletes.
ClearDirtyStateKeepsPending(d) ==
    [d EXCEPT !.facts = [i \in 1..Len(d.facts) |-> [d.facts[i] EXCEPT !.dirty = 0]]]

\* UPDATE facts SET dirty = 0; DELETE FROM pending_deletes.
ClearDirtyState(d) ==
    [d EXCEPT !.facts = [i \in 1..Len(d.facts) |-> [d.facts[i] EXCEPT !.dirty = 0]],
              !.pending = <<>>]

\* UPDATE facts SET access_count = access_count + 1 WHERE key = ?
IncrementAccessCount(d, key) ==
    [d EXCEPT !.facts = [i \in 1..Len(d.facts) |->
                            IF d.facts[i].key = key
                            THEN [d.facts[i] EXCEPT !.access_count = @ + 1]
                            ELSE d.facts[i]]]

----------------------------------------------------------------------------
(* core/shard.ts : operations, chunking, replay. *)

MAX_SHARD_BYTES == 92160
ENCRYPTION_OVERHEAD == 28

\* Byte length of JSON.stringify of the empty wrapper measured by
\* chunkOperationsBySize (version 999999, ISO timestamp, 36-char session id).
WrapperSize == 131

\* Byte lengths of the JSON text of an operation without its key, value and
\* scope strings: an upsert (36-char fact_id, no tags, confidence 1) and a
\* delete.
UpsertFixedBytes == 120
DeleteFixedBytes == 24

\* Byte lengths of the strings of the model.
KeyBytes(k) == IF k = "global:k1" THEN 9 ELSE 12
ValueBytes(v) == IF v = "long" THEN 60000 ELSE 5
ScopeBytes(s) == IF s = "global" THEN 6 ELSE 9

FactToUpsertOp(fact) ==
    [op |-> "upsert", key |-> fact.key, value |-> fact.value, scope |-> fact.scope]

DeleteOp(key) == [op |-> "delete", key |-> key, value |-> Undefined, scope |-> Undefined]

\* encoder.encode(JSON.stringify(op)).byteLength
OpJsonBytes(op) ==
    IF op.op = "delete" THEN DeleteFixedBytes + KeyBytes(op.key)
    ELSE UpsertFixedBytes + KeyBytes(op.key) + ValueBytes(op.value)
             + ScopeBytes(op.scope)

\* The session id of a push: uuidv4(), 36 characters.
Uuid == "uuid"

\* timestamp: new Date().toISOString(), the clock of the model.
CreateShard(operations, version, sessionId) ==
    [shard_version |-> version, timestamp |-> now, session_id |-> sessionId,
     operations |-> operations]

\* A session id longer than a uuid, of 44 characters.
LongSession == "session-of-44-characters"

SessionBytes(sessionId) == IF sessionId = Uuid THEN 36 ELSE 44

\* Number of decimal digits of a version.
RECURSIVE Digits(_)
Digits(n) == IF n < 10 THEN 1 ELSE 1 + Digits(n \div 10)

\* Byte length of the JSON text of a shard without the digits of its version,
\* the characters of its session id and its operations (the ISO timestamp
\* has 24 characters).
ShardFixedBytes == 89

RECURSIVE OpsJsonBytes(_)
OpsJsonBytes(operations) ==
    IF operations = <<>> THEN 0
    ELSE OpJsonBytes(Head(operations)) + OpsJsonBytes(Tail(operations))

\* serializeShard(shard).byteLength: the operations are separated by commas.
SerializedShardBytes(shard) ==
    ShardFixedBytes + Digits(shard.shard_version) + SessionBytes(shard.session_id)
        + OpsJsonBytes(shard.operations)
        + (IF Len(shard.operations) > 0 THEN Len(shard.operations) - 1 ELSE 0)

\* The loop of chunkOperationsBySize over operations[i..], with the chunks
\* closed so far, the open chunk and its running size.
RECURSIVE ChunkLoop(_, _, _, _, _, _)
ChunkLoop(operations, i, chunks, currentOps, currentSize, maxJsonBytes) ==
    IF i > Len(operations)
    THEN IF Len(currentOps) > 0 THEN Append(chunks, currentOps) ELSE chunks
    ELSE LET op == operations[i]
             opSize == OpJsonBytes(op) + 1
             flush == Len(currentOps) > 0 /\ currentSize + opSize > maxJsonBytes
         IN IF flush
            THEN ChunkLoop(operations, i + 1, Append(chunks, currentOps),
                           <<op>>, WrapperSize + opSize, maxJsonBytes)
            ELSE ChunkLoop(operations, i + 1, chunks,
                           Append(currentOps, op), currentSize + opSize, maxJsonBytes)

\* chunkOperationsBySize that leaves out the operations too large to fit.
ChunkOperationsFitting(operations, maxJsonBytes) ==
    ChunkLoop(SelectSeq(operations,
                        LAMBDA op : WrapperSize + OpJsonBytes(op) + 1 <= maxJsonBytes),
              1, <<>>, <<>>, WrapperSize, maxJsonBytes)

ChunkOperationsBySize(operations, maxJsonBytes) ==
    ChunkLoop(operations, 1, <<>>, <<>>, WrapperSize, maxJsonBytes)

\* createChunkedShards numbering its chunks from startVersion + 1.
CreateChunkedShardsOffByOne(operations, startVersion, sessionId, maxEncryptedBytes) ==
    LET chunks == ChunkOperationsBySize(operations,
                                        maxEncryptedBytes - ENCRYPTION_OVERHEAD)
    IN [i \in 1..Len(chunks) |-> CreateShard(chunks[i], startVersion + i, sessionId)]

CreateChunkedShards(operations, startVersion, sessionId, maxEncryptedBytes) ==
    IF Len(operations) = 0 THEN <<>>
    ELSE LET chunks == ChunkOperationsBySize(operations,
                                             maxEncryptedBytes - ENCRYPTION_OVERHEAD)
         IN [i \in 1..Len(chunks) |-> CreateShard(chunks[i], startVersion + (i - 1), sessionId)]

\* ApplyOp with an upsert taking every field from the operation and its shard.
ApplyOpFresh(state, op, shard) ==
    IF op.op = "delete"
    THEN SelectSeq(state, LAMBDA f : f.key # op.key)
    ELSE Append(SelectSeq(state, LAMBDA f : f.key # op.key),
                [key |-> op.key, value |-> op.value, scope |-> op.scope,
                 source_session |-> shard.session_id, created |-> shard.timestamp,
                 last_confirmed |-> shard.timestamp, access_count |-> 0])

\* One operation applied to the replay map (a Map keeps insertion order: set
\* on a present key keeps its place, delete then set moves it to the end).
ApplyOp(state, op, shard) ==
    IF op.op = "delete"
    THEN SelectSeq(state, LAMBDA f : f.key # op.key)
    ELSE IF op.op = "upsert"
    THEN LET present == \E i \in 1..Len(state) : state[i].key = op.key
             existing == state[CHOOSE i \in 1..Len(state) : state[i].key = op.key]
             fact == [key |-> op.key,
                      value |-> IF op.value = Undefined THEN "" ELSE op.value,
                      scope |-> IF op.scope = Undefined THEN "global" ELSE op.scope,
                      source_session |-> shard.session_id,
                      created |-> IF present THEN existing.created
                                  ELSE shard.timestamp,
                      last_confirmed |-> shard.timestamp,
                      access_count |-> IF present THEN existing.access_count ELSE 0]
         IN IF present
            THEN [i \in 1..Len(state) |->
                     IF state[i].key = op.key THEN fact ELSE state[i]]
            ELSE Append(state, fact)
    ELSE state

RECURSIVE ApplyOps(_, _, _)
ApplyOps(state, ops, shard) ==
    IF ops = <<>> THEN state
    ELSE ApplyOps(ApplyOp(state, Head(ops), shard), Tail(ops), shard)

RECURSIVE ReplayFrom(_, _)
ReplayFrom(state, shards) ==
    IF shards = <<>> THEN state
    ELSE ReplayFrom(ApplyOps(state, Head(shards).operations, Head(shards)),
                    Tail(shards))

ReplayShards(shards) == ReplayFrom(<<>>, shards)

----------------------------------------------------------------------------
(* core/sync.ts : upload of a data shard, restore on a fresh machine. *)

\* The transaction pushShard uploads for a shard: the encrypted blob, tagged
\* with Version and Type and signed by the wallet.
ShardTx(shard, type) ==
    [version |-> shard.shard_version, type |-> type, fault |-> "ok", shard |-> shard]

NoShard == [shard_version |-> 0, timestamp |-> 0, session_id |-> Uuid,
            operations |-> <<>>]

\* The entries queryShards returns that are data shards.
DataShards(query) == SelectSeq(query, LAMBDA s : s.type = "delta" \/ s.type = "snapshot")

\* snapshots.reduce((a, b) => a.version > b.version ? a : b): only its
\* version is used.
HasSnapshot(shards) == \E i \in 1..Len(shards) : shards[i].type = "snapshot"

LatestSnapshotVersion(shards) ==
    LET snapshots == SelectSeq(shards, LAMBDA s : s.type = "snapshot")
    IN MaxOf({ snapshots[i].version : i \in 1..Len(snapshots) })

\* ShardsToFetch without the snapshot cut.
ShardsToFetchAll(dataShards) == dataShards

ShardsToFetch(dataShards) ==
    IF HasSnapshot(dataShards)
    THEN SelectSeq(dataShards,
                   LAMBDA s : s.version >= LatestSnapshotVersion(dataShards))
    ELSE dataShards

\* downloadShard(txId, maxBytes) throws when the blob exceeds maxBytes.
DownloadThrows(shardInfo) == shardInfo.fault = "oversize"

\* Survives without the two signature checks.
SurvivesUnsigned(shardInfo) ==
    /\ ~ DownloadThrows(shardInfo)
    /\ shardInfo.fault # "undecryptable"
    /\ shardInfo.fault # "unparseable"

\* ReachesDecrypt with decrypt called right after the download.
ReachesDecryptUnverified(shardInfo) == ~ DownloadThrows(shardInfo)

\* The first half of a pass of the download loop: the blob is fetched under
\* the size cap and its signature tag must be present and verify; only then is
\* the blob passed to decrypt.
ReachesDecrypt(shardInfo) ==
    /\ ~ DownloadThrows(shardInfo)
    /\ shardInfo.fault # "nosig"
    /\ shardInfo.fault # "badsig"

\* One pass of the download loop: a blob that reaches decrypt is decrypted and
\* parsed. Any failure, a throw included, skips the entry.
Survives(shardInfo) ==
    /\ ReachesDecrypt(shardInfo)
    /\ shardInfo.fault # "undecryptable"
    /\ shardInfo.fault # "unparseable"

\* The entries whose blob pullAndReconstruct passes to decrypt.
DecryptCalls(id, query) ==
    IF id = "none" \/ id = "undecryptable" THEN {}
    ELSE LET shardsToFetch == ShardsToFetch(DataShards(query))
         IN { shardsToFetch[i] : i \in { j \in 1..Len(shardsToFetch) :
                                            ReachesDecrypt(shardsToFetch[j]) } }

DecryptedShards(shardsToFetch) ==
    LET kept == SelectSeq(shardsToFetch, Survives)
    IN [i \in 1..Len(kept) |-> kept[i].shard]

\* Array.prototype.sort with (a, b) => a.shard_version - b.shard_version:
\* stable, so equal versions keep their input order.
RECURSIVE InsertByVersion(_, _)
InsertByVersion(sorted, shard) ==
    IF sorted = <<>> THEN <<shard>>
    ELSE IF sorted[Len(sorted)].shard_version <= shard.shard_version
    THEN Append(sorted, shard)
    ELSE Append(InsertByVersion(SubSeq(sorted, 1, Len(sorted) - 1), shard),
                sorted[Len(sorted)])

RECURSIVE SortFrom(_, _)
SortFrom(sorted, rest) ==
    IF rest = <<>> THEN sorted
    ELSE SortFrom(InsertByVersion(sorted, Head(rest)), Tail(rest))

SortByVersion(shards) == SortFrom(<<>>, shards)

RECURSIVE UpsertAll(_, _)
UpsertAll(d, facts) ==
    IF facts = <<>> THEN d ELSE UpsertAll(UpsertFact(d, Head(facts)), Tail(facts))

\* MaxVersionOf taken over the shards that were replayed only.
MaxReplayedVersion(dataShards) ==
    LET kept == SelectSeq(ShardsToFetch(dataShards), Survives)
    IN MaxOf({ kept[i].version : i \in 1..Len(kept) })

MaxVersionOf(dataShards) == MaxOf({ dataShards[i].version : i \in 1..Len(dataShards) })

NotPulled == [status |-> "none", db |-> EmptyDb, exists |-> FALSE]

\* PullFailed with the database opened and initialised before the throw.
PullFailedAfterOpen(error) ==
    [status |-> error, exists |-> TRUE,
     db |-> SetMeta(SetMeta(EmptyDb, "current_version", "0"), "wallet_address", Wallet)]

\* The call throws before openDatabase: no database file is written.
PullFailed(error) == [status |-> error, db |-> EmptyDb, exists |-> FALSE]

\* EmptyStore without the current_version entry.
EmptyStoreUnversioned == SetMeta(EmptyDb, "wallet_address", Wallet)

\* No data shard is listed: a new database with current_version "0" and the
\* wallet address.
EmptyStore ==
    SetMeta(SetMeta(EmptyDb, "current_version", "0"), "wallet_address", Wallet)

\* Steps 7 and 8: what is written to the new database.
Populate(facts, dataShards) ==
    ClearDirtyState(
        SetMeta(SetMeta(UpsertAll(EmptyDb, facts),
                        "current_version", String(MaxVersionOf(dataShards))),
                "wallet_address", Wallet))

\* pullAndReconstruct(walletAddress, passphrase, dbPath) on a machine with no
\* local state; id is the identity record fetched, query the result of
\* queryShards in the order the ledger returns it.
PullAndReconstruct(id, query) ==
    IF id = "none" THEN PullFailed("IdentityMissing")
    ELSE IF id = "undecryptable" THEN PullFailed("BadPassphrase")
    ELSE LET dataShards == DataShards(query)
             decryptedShards == DecryptedShards(ShardsToFetch(dataShards))
         IN IF Len(dataShards) = 0
            THEN [status |-> "ok", exists |-> TRUE, db |-> EmptyStore]
            ELSE IF Len(decryptedShards) = 0
            THEN PullFailed("NoRecoverableShards")
            ELSE [status |-> "ok", exists |-> TRUE,
                  db |-> Populate(ReplayShards(SortByVersion(decryptedShards)),
                                  dataShards)]

\* queryShards: the transactions tagged with the wallet, in any of the orders
\* in which the ledger may return them.
RECURSIVE QueryShards(_)
QueryShards(txs) ==
    IF txs = EmptyBag THEN {<<>>}
    ELSE UNION { { <<tx>> \o rest : rest \in QueryShards(txs (-) SetToBag({tx})) }
                 : tx \in BagToSet(txs) }

\* A restore on a fresh machine, from the ledger as it is now.
Pull ==
    /\ \E query \in QueryShards(ledger) :
          restored' = PullAndReconstruct(identity, query)
    /\ restored' # restored
    /\ UNCHANGED <<auxVars, db, pushes, ledger, identity, deletedKeys, lastAbort, serial,
                   cli, opLog, convVars>>

\* Any party puts a data transaction tagged with the wallet on the ledger.
LedgerUpload(tx) ==
    /\ BagCardinality(ledger) < MaxLedger
    /\ ledger' = ledger (+) SetToBag({tx})
    /\ restored' = NotPulled
    /\ UNCHANGED <<auxVars, db, pushes, identity, deletedKeys, lastAbort, serial,
                   cli, opLog, convVars>>

----------------------------------------------------------------------------
(* src/index.ts : the store_fact and delete_fact tools, the sync timer. *)

NoAbort == [v |-> 0, ops |-> {}]

\* A key that carries a scope prefix is kept, any other gets the scope's.
FullKey(key, factScope) ==
    IF key \in PrefixedKeys THEN key ELSE factScope \o ":" \o key

\* store_fact: upsertFact of a fact built from the tool's arguments.
StoreFact(key, value, scope) ==
    /\ db' = UpsertFact(db, [key |-> FullKey(key, scope), value |-> value,
                             scope |-> scope, created |-> now,
                             last_confirmed |-> now, access_count |-> 0])
    /\ deletedKeys' = deletedKeys \ {FullKey(key, scope)}
    /\ lastAbort' = NoAbort
    /\ serial' = (serial /\ pushes = <<>>)
    /\ UNCHANGED <<auxVars, pushes, ledger, identity, restored,
                   cli, opLog, convVars>>

\* delete_fact: returns early when getFact finds nothing.
DeleteFactTool(key) ==
    /\ HasFact(db, key)
    /\ db' = DeleteFact(db, key)
    /\ deletedKeys' = deletedKeys \cup {key}
    /\ lastAbort' = NoAbort
    /\ serial' = (serial /\ pushes = <<>>)
    /\ UNCHANGED <<auxVars, pushes, ledger, identity, restored,
                   cli, opLog, convVars>>

\* The operations of a push: every dirty fact, then every pending delete.
Operations(d) ==
    LET dirtyFacts == GetDirtyFacts(d)
        pendingDeletes == GetPendingDeletes(d)
    IN [i \in 1..Len(dirtyFacts) |-> FactToUpsertOp(dirtyFacts[i])]
       \o [i \in 1..Len(pendingDeletes) |-> DeleteOp(pendingDeletes[i])]

CurrentVersion(d) ==
    ParseInt(IF GetMeta(d, "current_version") = Null THEN "0"
             ELSE GetMeta(d, "current_version"))

StartVersion(d) == CurrentVersion(d) + 1

\* syncDirtyFacts up to its first await: the call as it is suspended on the
\* upload of shards[next].
StartPush(d) ==
    [shards |-> CreateChunkedShards(Operations(d), StartVersion(d), Uuid, MAX_SHARD_BYTES),
     next |-> 1,
     lastVersion |-> CurrentVersion(d)]

\* A firing of the sync timer. With nothing dirty and nothing pending the call
\* returns at once and changes nothing.
Tick ==
    /\ Len(pushes) < MaxInFlight
    /\ BagCardinality(ledger) + Len(pushes) < MaxLedger
    /\ Len(Operations(db)) > 0
    /\ pushes' = Append(pushes, StartPush(db))
    /\ lastAbort' = NoAbort
    /\ serial' = (serial /\ pushes = <<>>)
    /\ UNCHANGED <<auxVars, db, ledger, identity, restored, deletedKeys,
                   cli, opLog, convVars>>

\* The statements after the upload loop.
Commit(d, lastVersion) ==
    SetMeta(SetMeta(ClearDirtyState(d), "current_version", String(lastVersion)),
            "last_pushed_version", String(lastVersion))

\* The store after the upload of one shard has returned and more remain: the
\* loop body only sets the local lastVersion and logs.
AfterShard(d, version) == d

\* AfterFailure with the commit's clearDirtyState run in the catch block.
AfterFailureClears(d) == ClearDirtyState(d)

\* The store after an upload has thrown: the catch block only logs.
AfterFailure(d) == d

\* AbortPush with the loop going on to the next shard after the throw.
AbortPushSkipsShard(ps, i) ==
    IF ps[i].next < Len(ps[i].shards)
    THEN [ps EXCEPT ![i].next = ps[i].next + 1]
    ELSE RemoveAt(ps, i)

\* The suspended calls after the upload of pushes[i] has thrown: the loop is
\* left and the call ends.
AbortPush(ps, i) == RemoveAt(ps, i)

\* pushShard returns a transaction id: the continuation runs to the next
\* upload, or through the commit to the end of the call.
UploadSucceeds(i) ==
    LET p == pushes[i]
        shard == p.shards[p.next]
    IN /\ BagCardinality(ledger) < MaxLedger
       /\ ledger' = ledger (+) SetToBag({ShardTx(shard, "delta")})
       /\ IF p.next < Len(p.shards)
          THEN /\ pushes' = [pushes EXCEPT ![i].next = p.next + 1,
                                           ![i].lastVersion = shard.shard_version]
               /\ db' = AfterShard(db, shard.shard_version)
          ELSE /\ pushes' = RemoveAt(pushes, i)
               /\ db' = Commit(db, shard.shard_version)
       /\ UNCHANGED <<auxVars, identity, restored, deletedKeys, lastAbort, serial,
                      cli, opLog, convVars>>

OpsOf(shards) ==
    UNION { { shards[j].operations[n] : n \in 1..Len(shards[j].operations) }
            : j \in 1..Len(shards) }

\* pushShard throws.
UploadFails(i) ==
    LET p == pushes[i]
    IN /\ pushes' = AbortPush(pushes, i)
       /\ db' = AfterFailure(db)
       /\ lastAbort' = IF p.next > 1
                       THEN [v |-> p.lastVersion,
                             ops |-> OpsOf(SubSeq(p.shards, 1, p.next - 1))]
                       ELSE NoAbort
       /\ UNCHANGED <<auxVars, ledger, identity, restored, deletedKeys, serial,
                      cli, opLog, convVars>>

\* The process is stopped (shutdown) and started again: suspended calls are
\* abandoned, the store and the ledger stay.
Restart ==
    /\ pushes # <<>>
    /\ pushes' = <<>>
    /\ lastAbort' = NoAbort
    /\ UNCHANGED <<auxVars, db, ledger, identity, restored, deletedKeys, serial,
                   cli, opLog, convVars>>

----------------------------------------------------------------------------
(* The writer with its background sync. *)

\* The restore command has not run: no home directory.
IdleCli == [pc |-> "idle", error |-> "none", dir |-> FALSE,
            salt |-> FALSE, identityFile |-> FALSE]

\* No transcript file yet.
NoTranscript == [messages |-> <<>>, rev |-> 0]

\* A new ConversationWatcher on a machine without transcripts, at second 0.
InitConversations ==
    /\ transcript = NoTranscript
    /\ fileStates = 0
    /\ uploads = <<>>
    /\ convLedger = EmptyBag
    /\ retryDue = FALSE
    /\ now = 0

\* No store call is between two statements.
NoCall == [op |-> "none", pc |-> "done", key |-> Null, fact |-> Null, exists |-> FALSE]

\* No shard function has been called.
NoEval == [fn |-> "none"]

\* The push command is not running.
IdlePush == [pc |-> "idle", queue |-> <<>>, files |-> <<>>]

InitAux ==
    /\ call = NoCall
    /\ eval = NoEval
    /\ pushCmd = IdlePush
    /\ identityTxs = 0

\* After initCommand: an empty store with current_version "0" and the wallet.
InitDb == SetMeta(SetMeta(EmptyDb, "current_version", "0"), "wallet_address", Wallet)

Init ==
    /\ db = InitDb
    /\ pushes = <<>>
    /\ ledger = EmptyBag
    /\ identity = "ok"
    /\ restored = NotPulled
    /\ deletedKeys = {}
    /\ lastAbort = NoAbort
    /\ serial = TRUE
    /\ cli = IdleCli
    /\ opLog = <<>>
    /\ InitConversations
    /\ InitAux

Next ==
    \/ \E in \in StoreInputs : StoreFact(in[1], in[2], in[3])
    \/ \E k \in Keys : DeleteFactTool(k)
    \/ Tick
    \/ \E i \in 1..Len(pushes) : UploadSucceeds(i)
    \/ \E i \in 1..Len(pushes) : UploadFails(i)
    \/ Restart

Spec == Init /\ [][Next]_vars

----------------------------------------------------------------------------
(* The writer with one sync call at a time, in a process that may stop      *)
(* inside the statements that follow the upload loop.                       *)

\* The last upload of pushes[i] returns, clearDirtyState runs and the process
\* stops before setMeta("current_version"): suspended calls are abandoned.
StopAfterClearDirty(i) ==
    LET p == pushes[i]
    IN /\ p.next = Len(p.shards)
       /\ BagCardinality(ledger) < MaxLedger
       /\ ledger' = ledger (+) SetToBag({ShardTx(p.shards[p.next], "delta")})
       /\ db' = ClearDirtyState(db)
       /\ pushes' = <<>>
       /\ lastAbort' = NoAbort
       /\ UNCHANGED <<auxVars, identity, restored, deletedKeys, serial,
                      cli, opLog, convVars>>

NextStop ==
    \/ \E in \in StoreInputs : StoreFact(in[1], in[2], in[3])
    \/ \E k \in Keys : DeleteFactTool(k)
    \/ pushes = <<>> /\ Tick
    \/ \E i \in 1..Len(pushes) : UploadSucceeds(i)
    \/ \E i \in 1..Len(pushes) : UploadFails(i)
    \/ \E i \in 1..Len(pushes) : StopAfterClearDirty(i)

SpecStop == Init /\ [][NextStop]_vars

----------------------------------------------------------------------------
(* The writer with one sync call at a time, under fairness: the timer      *)
(* keeps firing and an upload that is retried again and again succeeds.    *)

\* A firing of the timer with no call suspended.
SerialTick == pushes = <<>> /\ Tick

\* The upload of the n-th shard of a call returns a transaction id.
UploadOfShardSucceeds(n) ==
    \E i \in 1..Len(pushes) : pushes[i].next = n /\ UploadSucceeds(i)

NextLive ==
    \/ \E in \in StoreInputs : StoreFact(in[1], in[2], in[3])
    \/ \E k \in Keys : DeleteFactTool(k)
    \/ SerialTick
    \/ \E i \in 1..Len(pushes) : UploadSucceeds(i)
    \/ \E i \in 1..Len(pushes) : UploadFails(i)

\* setInterval fires every SYNC_INTERVAL_MS for as long as the server runs
\* (weak fairness of the tick); the upload of each shard of a batch, tried
\* again by every later call, succeeds in the end (strong fairness).
Fairness ==
    /\ WF_vars(SerialTick)
    /\ \A n \in 1..MaxOps : SF_vars(UploadOfShardSucceeds(n))

SpecLive == Init /\ [][NextLive]_vars /\ Fairness

----------------------------------------------------------------------------
(* Restores of a ledger that holds any transactions tagged with the wallet. *)

\* The operation lists of the well-formed shards put on the ledger.
PullOps ==
    { <<FactToUpsertOp([key |-> "global:k1", value |-> "short", scope |-> "global"])>>,
      <<FactToUpsertOp([key |-> "global:k1", value |-> "long", scope |-> "project:p"])>>,
      <<DeleteOp("global:k1")>> }

Types == {"delta", "snapshot"}

\* Transactions that verify, decrypt and parse; shards of the wallet whose
\* signature tag is missing or does not verify; and blobs that are too large,
\* do not decrypt or do not parse.
PullTxs ==
    { [version |-> v, type |-> t, fault |-> f, shard |-> [shard_version |-> v, timestamp |-> 0, session_id |-> Uuid,
                      operations |-> ops]]
        : ops \in PullOps, v \in 1..MaxTagVersion, t \in Types,
          f \in {"ok", "nosig", "badsig"} }
    \cup { [version |-> v, type |-> t, fault |-> f, shard |-> NoShard]
            : v \in 1..MaxTagVersion, t \in Types,
              f \in {"oversize", "undecryptable", "unparseable"} }

InitPull ==
    /\ db = InitDb
    /\ pushes = <<>>
    /\ ledger = EmptyBag
    /\ identity \in {"none", "ok", "undecryptable"}
    /\ restored = NotPulled
    /\ deletedKeys = {}
    /\ lastAbort = NoAbort
    /\ serial = TRUE
    /\ cli = IdleCli
    /\ opLog = <<>>
    /\ InitConversations
    /\ InitAux

NextPull ==
    \/ \E tx \in PullTxs : LedgerUpload(tx)
    \/ Pull

SpecPull == InitPull /\ [][NextPull]_vars

----------------------------------------------------------------------------
(* core/sync.ts : pull of conversation chunks. *)

Session == "s1"

\* groupConversationChunkInfos: the key `${session}:${offset}:${timestamp}`.
GroupKey(info) == <<info.session, info.offset, info.timestamp>>

\* The groups of a listing: under each key the entries that carry it, in the
\* order of the listing.
GroupConversationChunkInfos(infos) ==
    [k \in { GroupKey(infos[i]) : i \in 1..Len(infos) } |->
        SelectSeq(infos, LAMBDA info : GroupKey(info) = k)]

\* [...group].sort((a, b) => a.chunkIndex - b.chunkIndex), a stable sort.
RECURSIVE InsertByChunkIndex(_, _)
InsertByChunkIndex(sorted, chunk) ==
    IF sorted = <<>> THEN <<chunk>>
    ELSE IF sorted[Len(sorted)].chunkIndex <= chunk.chunkIndex
    THEN Append(sorted, chunk)
    ELSE Append(InsertByChunkIndex(SubSeq(sorted, 1, Len(sorted) - 1), chunk),
                sorted[Len(sorted)])

RECURSIVE SortChunksFrom(_, _)
SortChunksFrom(sorted, rest) ==
    IF rest = <<>> THEN sorted
    ELSE SortChunksFrom(InsertByChunkIndex(sorted, Head(rest)), Tail(rest))

SortedChunks(group) == SortChunksFrom(<<>>, group)

\* CompleteSequence for any group.
CompleteSequenceAny(sortedChunks) == TRUE

\* The group has as many chunks as its first chunk declares, indexed 1..N.
CompleteSequence(sortedChunks) ==
    /\ Len(sortedChunks) = sortedChunks[1].chunkTotal
    /\ \A i \in 1..Len(sortedChunks) : sortedChunks[i].chunkIndex = i

\* A chunk is downloaded under the size cap; a missing or invalid signature
\* throws.
ChunkVerifies(chunk) ==
    /\ ~ DownloadThrows(chunk)
    /\ chunk.fault # "nosig"
    /\ chunk.fault # "badsig"

\* The group is complete and each of its chunks was downloaded and verified:
\* the chunks are joined and the result is passed to decrypt.
GroupReachesDecrypt(group) ==
    /\ Len(group) > 0
    /\ CompleteSequence(SortedChunks(group))
    /\ \A i \in 1..Len(group) : ChunkVerifies(SortedChunks(group)[i])

\* The chunk sequences pullConversations joins and passes to decrypt.
ConversationDecryptCalls(infos) ==
    LET grouped == GroupConversationChunkInfos(infos)
    IN { SortedChunks(grouped[k]) :
           k \in { g \in DOMAIN grouped : GroupReachesDecrypt(grouped[g]) } }

----------------------------------------------------------------------------
(* Pulls of a ledger that holds any data and conversation transactions. *)

MaxClock == 1        \* latest second of the wall clock

\* Conversation chunks tagged with the wallet: chunks that verify, chunks whose
\* signature tag is missing or does not verify, and blobs that are too large.
ConvTxs ==
    { [session |-> Session, offset |-> 0, count |-> 1, timestamp |-> t,
       chunkIndex |-> i, chunkTotal |-> n, fault |-> f, messages |-> <<1>>]
        : t \in 0..MaxClock, i \in 1..2, n \in 1..2,
          f \in {"ok", "nosig", "badsig", "oversize"} }

\* The data transactions of Version 1 among PullTxs.
FirstVersionTxs == { tx \in PullTxs : tx.version = 1 }

LedgerSize == BagCardinality(ledger) + BagCardinality(convLedger)

\* Any party puts a conversation chunk tagged with the wallet on the ledger.
ConvLedgerUpload(tx) ==
    /\ LedgerSize < MaxLedger
    /\ convLedger' = convLedger (+) SetToBag({tx})
    /\ UNCHANGED <<auxVars, db, pushes, ledger, identity, restored, deletedKeys, lastAbort,
                   serial, cli, opLog, transcript, fileStates, uploads, retryDue,
                   now>>

NextPullAll ==
    \/ \E tx \in FirstVersionTxs : LedgerSize < MaxLedger /\ LedgerUpload(tx)
    \/ \E tx \in ConvTxs : ConvLedgerUpload(tx)
    \/ Pull

SpecPullAll == InitPull /\ [][NextPullAll]_vars

----------------------------------------------------------------------------
(* cli/init.ts : restore from a recovery phrase on a fresh machine. *)

\* The home directory as the command sees it: the directory, the database
\* file, the salt file and the identity file.
Home(c, r) ==
    [dir |-> c.dir, exists |-> r.exists, db |-> r.db,
     salt |-> c.salt, identityFile |-> c.identityFile]

\* TearDown that removes nothing.
TearDownKeeps(home) == home

\* rmSync(SHAREDCONTEXT_DIR, { recursive: true, force: true }).
TearDown(home) ==
    [dir |-> FALSE, exists |-> FALSE, db |-> EmptyDb,
     salt |-> FALSE, identityFile |-> FALSE]

\* The catch block: the home directory is removed and the error rethrown.
RestoreFails(error, home) ==
    /\ cli' = [pc |-> "failed", error |-> error,
               dir |-> TearDown(home).dir, salt |-> TearDown(home).salt,
               identityFile |-> TearDown(home).identityFile]
    /\ restored' = [status |-> error, db |-> TearDown(home).db,
                    exists |-> TearDown(home).exists]

\* initExistingCommand up to the return of pullAndReconstruct: the phrase is
\* validated, the home directory made and the facts pulled into the database.
\* net says whether the ledger can be reached.
InitExistingPull(phrase, net) ==
    /\ cli.pc = "idle"
    /\ ~ restored.exists
    /\ IF phrase = "invalid"
       THEN /\ cli' = [cli EXCEPT !.pc = "failed", !.error = "BadPhrase"]
            /\ restored' = restored
       ELSE \E query \in QueryShards(ledger) :
              LET r == IF net = "down" THEN PullFailed("NetworkError")
                       ELSE PullAndReconstruct(identity, query)
                  made == [cli EXCEPT !.dir = TRUE]
              IN IF r.status = "ok"
                 THEN /\ cli' = [made EXCEPT !.pc = "pulled"]
                      /\ restored' = r
                 ELSE RestoreFails(r.status, Home(made, r))
    /\ UNCHANGED <<auxVars, db, pushes, ledger, identity, deletedKeys, lastAbort, serial,
                   opLog, convVars>>

\* initExistingCommand after pullAndReconstruct: the identity record is fetched
\* again (found is what the fetch returns) and written to the salt and
\* identity files, then the decrypted private key is compared with the key
\* derived from the phrase.
InitExistingVerify(found) ==
    /\ cli.pc = "pulled"
    /\ IF ~ found
       THEN RestoreFails("IdentityMissing", Home(cli, restored))
       ELSE LET written == [cli EXCEPT !.salt = TRUE, !.identityFile = TRUE]
            IN IF identity = "otherkey"
               THEN RestoreFails("IdentityMismatch", Home(written, restored))
               ELSE /\ cli' = [written EXCEPT !.pc = "done"]
                    /\ restored' = restored
    /\ UNCHANGED <<auxVars, db, pushes, ledger, identity, deletedKeys, lastAbort, serial,
                   opLog, convVars>>

\* The identity record of the wallet: none, one that the phrase decrypts to
\* the key derived from it, one that the phrase does not decrypt, and one that
\* it decrypts to another key.
InitRestore ==
    /\ db = InitDb
    /\ pushes = <<>>
    /\ ledger = EmptyBag
    /\ identity \in {"none", "ok", "undecryptable", "otherkey"}
    /\ restored = NotPulled
    /\ deletedKeys = {}
    /\ lastAbort = NoAbort
    /\ serial = TRUE
    /\ cli = IdleCli
    /\ opLog = <<>>
    /\ InitConversations
    /\ InitAux

NextRestore ==
    \/ \E tx \in PullTxs : cli.pc = "idle" /\ LedgerUpload(tx)
    \/ \E phrase \in {"valid", "invalid"}, net \in {"up", "down"} :
          InitExistingPull(phrase, net)
    \/ \E found \in BOOLEAN : InitExistingVerify(found)

SpecRestore == InitRestore /\ [][NextRestore]_vars

----------------------------------------------------------------------------
(* core/watcher.ts, src/index.ts, core/sync.ts : push of conversation deltas. *)

NONCE_LENGTH == 12

\* Length of the authentication tag AES-256-GCM appends to the ciphertext.
GcmTagBytes == 16

\* Byte length of JSON.stringify(payload) without its messages (id "s1",
\* client "cursor", a one-letter project, ISO dates, one-digit offset and
\* count), and of one message of the model with its 40000-byte content.
PayloadFixedBytes == 156
MessageBytes == 40028

\* new TextEncoder().encode(JSON.stringify(payload)).length for a payload of
\* n messages, separated by commas.
SerializedLength(n) == PayloadFixedBytes + n * MessageBytes + (n - 1)

\* encrypt: nonce, ciphertext, tag.
EncryptedLength(plainLength) == NONCE_LENGTH + plainLength + GcmTagBytes

\* The number of pieces the ciphertext is cut into.
ChunkCount(encryptedLength) ==
    IF encryptedLength <= MAX_SHARD_BYTES THEN 1
    ELSE (encryptedLength + MAX_SHARD_BYTES - 1) \div MAX_SHARD_BYTES

Min(a, b) == IF a <= b THEN a ELSE b
Max(a, b) == IF a >= b THEN a ELSE b

SafeOffset(lastSyncedCount, messages) ==
    Max(0, Min(lastSyncedCount, Len(messages)))

\* Piece with the whole ciphertext as every piece.
PieceWhole(encryptedLength, i) == [from |-> 0, to |-> encryptedLength]

\* The bytes [from, to) of the ciphertext that make piece i:
\* encrypted.slice(offset, offset + maxBytes), or all of it when it fits.
Piece(encryptedLength, i) ==
    IF encryptedLength <= MAX_SHARD_BYTES
    THEN [from |-> 0, to |-> encryptedLength]
    ELSE [from |-> (i - 1) * MAX_SHARD_BYTES,
          to |-> Min(i * MAX_SHARD_BYTES, encryptedLength)]

\* pushConversationDelta up to its first await: the call suspended on the
\* upload of chunk `next` of `total`, whose Timestamp tag was taken at second
\* `stamp`. The conversation was parsed at `second`; encrypt drew `nonce`,
\* which no other call draws.
StartUpload(messages, lastSyncedCount, second, nonce) ==
    LET safeOffset == SafeOffset(lastSyncedCount, messages)
        deltaMessages == SubSeq(messages, safeOffset + 1, Len(messages))
    IN [conversation |-> messages,
        offset |-> safeOffset,
        delta |-> deltaMessages,
        encrypted |-> EncryptedLength(SerializedLength(Len(deltaMessages))),
        nonce |-> nonce,
        parsed |-> second,
        total |-> ChunkCount(EncryptedLength(SerializedLength(Len(deltaMessages)))),
        next |-> 1,
        stamp |-> second]

\* The chunk transaction the call is uploading: a piece of the ciphertext of
\* the payload, with its tags.
ChunkTx(p) ==
    [session |-> Session, offset |-> p.offset, count |-> Len(p.delta),
     timestamp |-> p.stamp, chunkIndex |-> p.next, chunkTotal |-> p.total,
     fault |-> "ok", messages |-> p.delta,
     cipher |-> p.nonce, piece |-> Piece(p.encrypted, p.next),
     startedAt |-> p.parsed, updatedAt |-> p.parsed]

\* Number.parseInt(lastSyncedRaw ?? "0", 10) of the cursor in meta.
Cursor(d) ==
    ParseInt(IF GetMeta(d, StateKey) = Null THEN "0" ELSE GetMeta(d, StateKey))

\* The transcript file is written: a message is appended.
AppendMessage ==
    /\ transcript.rev < MaxRevisions
    /\ transcript' = [messages |-> Append(transcript.messages, transcript.rev + 1),
                      rev |-> transcript.rev + 1]
    /\ UNCHANGED <<auxVars, db, pushes, ledger, identity, restored, deletedKeys, lastAbort,
                   serial, cli, opLog, fileStates, uploads, convLedger, retryDue,
                   now>>

\* The transcript file is rewritten without its last message.
DropMessage ==
    /\ transcript.rev < MaxRevisions
    /\ Len(transcript.messages) > 0
    /\ transcript' = [messages |-> SubSeq(transcript.messages, 1,
                                          Len(transcript.messages) - 1),
                      rev |-> transcript.rev + 1]
    /\ UNCHANGED <<auxVars, db, pushes, ledger, identity, restored, deletedKeys, lastAbort,
                   serial, cli, opLog, fileStates, uploads, convLedger, retryDue,
                   now>>

\* A second passes.
ClockTick ==
    /\ now < MaxClock
    /\ now' = now + 1
    /\ UNCHANGED <<auxVars, db, pushes, ledger, identity, restored, deletedKeys, lastAbort,
                   serial, cli, opLog, transcript, fileStates, uploads, convLedger,
                   retryDue>>

\* checkFile finds the size and mtime it recorded, or a file without messages:
\* it returns without calling back.
FileUnchanged ==
    \/ fileStates = transcript.rev
    \/ Len(transcript.messages) = 0

\* A firing of the watcher's timer on the transcript file. A changed file
\* with messages is recorded and handed to the callback, which reads the
\* cursor and calls pushConversationDelta; with no new message that call
\* returns [] and the callback returns.
Poll ==
    /\ transcript.rev > 0
    /\ IF FileUnchanged
       THEN /\ retryDue
            /\ UNCHANGED <<fileStates, uploads>>
       ELSE /\ fileStates' = transcript.rev
            /\ LET p == StartUpload(transcript.messages, Cursor(db), now,
                                    <<transcript.rev, BagCardinality(convLedger)>>)
               IN IF Len(p.delta) = 0
                  THEN uploads' = uploads
                  ELSE /\ Len(uploads) < MaxInFlight
                       /\ uploads' = Append(uploads, p)
    /\ retryDue' = FALSE
    /\ UNCHANGED <<auxVars, db, pushes, ledger, identity, restored, deletedKeys, lastAbort,
                   serial, cli, opLog, transcript, convLedger, now>>

\* WriteCursor applied after every chunk.
WriteCursorEarly(d, p) == SetMeta(d, StateKey, String(Len(p.conversation)))

\* The store after a chunk upload has returned and more chunks remain: the
\* loop only collects the transaction id.
AfterChunk(d, p) == d

\* The callback after pushConversationDelta has returned its transaction ids.
WriteCursor(d, p) == SetMeta(d, StateKey, String(Len(p.conversation)))

\* backend.upload returns for the chunk of uploads[i]: the loop goes on to the
\* next chunk, or the call returns and the callback writes the cursor.
ChunkUploadSucceeds(i) ==
    LET p == uploads[i]
    IN /\ LedgerSize < MaxLedger
       /\ convLedger' = convLedger (+) SetToBag({ChunkTx(p)})
       /\ IF p.next < p.total
          THEN /\ uploads' = [uploads EXCEPT ![i].next = p.next + 1,
                                             ![i].stamp = now]
               /\ db' = AfterChunk(db, p)
          ELSE /\ uploads' = RemoveAt(uploads, i)
               /\ db' = WriteCursor(db, p)
       /\ UNCHANGED <<auxVars, pushes, ledger, identity, restored, deletedKeys, lastAbort,
                      serial, cli, opLog, transcript, fileStates, retryDue, now>>

\* backend.upload throws: the callback's catch block only logs.
ChunkUploadFails(i) ==
    LET p == uploads[i]
    IN /\ uploads' = RemoveAt(uploads, i)
       /\ retryDue' = (retryDue \/ p.next > 1)
       /\ UNCHANGED <<auxVars, db, pushes, ledger, identity, restored, deletedKeys,
                      lastAbort, serial, cli, opLog, transcript, fileStates,
                      convLedger, now>>

NextConv ==
    \/ AppendMessage
    \/ DropMessage
    \/ ClockTick
    \/ Poll
    \/ \E i \in 1..Len(uploads) : ChunkUploadSucceeds(i)
    \/ \E i \in 1..Len(uploads) : ChunkUploadFails(i)

SpecConv == Init /\ [][NextConv]_vars

----------------------------------------------------------------------------
(* The watcher on a transcript that only grows, in a process that may stop. *)

\* The upload of the chunk of uploads[i] reaches the ledger and the process
\* stops before the call resumes; the next process starts a new watcher, with
\* no file recorded.
StopAfterChunkUpload(i) ==
    /\ LedgerSize < MaxLedger
    /\ convLedger' = convLedger (+) SetToBag({ChunkTx(uploads[i])})
    /\ uploads' = <<>>
    /\ fileStates' = 0
    /\ retryDue' = FALSE
    /\ UNCHANGED <<auxVars, db, pushes, ledger, identity, restored, deletedKeys,
                   lastAbort, serial, cli, opLog, transcript, now>>

NextWatcher ==
    \/ AppendMessage
    \/ ClockTick
    \/ Poll
    \/ \E i \in 1..Len(uploads) : ChunkUploadSucceeds(i)
    \/ \E i \in 1..Len(uploads) : ChunkUploadFails(i)
    \/ \E i \in 1..Len(uploads) : StopAfterChunkUpload(i)

SpecWatcher == Init /\ [][NextWatcher]_vars

----------------------------------------------------------------------------
(* core/sync.ts : pullConversations, on any chunks the wallet has uploaded. *)

\* Session ids in the order of localeCompare.
SessionOrder == <<Session, "s2">>

SessionRank(session) == CHOOSE i \in 1..Len(SessionOrder) : SessionOrder[i] = session

\* The joined pieces decrypt only when they are the pieces of one ciphertext.
Decrypts(sortedChunks) ==
    \A i \in 1..Len(sortedChunks) : sortedChunks[i].cipher = sortedChunks[1].cipher

\* The first loop of pullConversations: one payload for every group that is
\* complete, verifies and decrypts; any other group is skipped. The payload's
\* id and offset are those of the tags.
SegmentPayloads(infos) ==
    LET grouped == GroupConversationChunkInfos(infos)
    IN { [session |-> SortedChunks(grouped[k])[1].session,
          offset |-> Max(0, SortedChunks(grouped[k])[1].offset),
          timestamp |-> SortedChunks(grouped[k])[1].timestamp,
          messages |-> SortedChunks(grouped[k])[1].messages,
          startedAt |-> SortedChunks(grouped[k])[1].startedAt,
          updatedAt |-> SortedChunks(grouped[k])[1].updatedAt]
         : k \in { g \in DOMAIN grouped :
                     /\ GroupReachesDecrypt(grouped[g])
                     /\ Decrypts(SortedChunks(grouped[g])) } }

\* SegmentBefore with the later timestamp first among equal offsets.
SegmentBeforeLatestFirst(a, b) ==
    IF a.session # b.session THEN SessionRank(a.session) < SessionRank(b.session)
    ELSE IF a.offset # b.offset THEN a.offset < b.offset
    ELSE a.timestamp > b.timestamp

\* The comparator of segmentPayloads.sort: session, offset, timestamp.
SegmentBefore(a, b) ==
    IF a.session # b.session THEN SessionRank(a.session) < SessionRank(b.session)
    ELSE IF a.offset # b.offset THEN a.offset < b.offset
    ELSE a.timestamp < b.timestamp

\* segmentPayloads sorted: no two payloads compare equal, since no two groups
\* share session, offset and timestamp.
SortedSegments(payloads) ==
    [i \in 1..Cardinality(payloads) |->
        CHOOSE seg \in payloads :
            Cardinality({ other \in payloads : SegmentBefore(other, seg) }) = i - 1]

\* The stitching loop: sessions in the order of their first segment, the
\* offsets seen per session.
RECURSIVE Stitch(_, _, _)
Stitch(sessions, seen, segs) ==
    IF segs = <<>> THEN sessions
    ELSE LET seg == Head(segs)
             known == \E i \in 1..Len(sessions) : sessions[i].id = seg.session
         IN IF <<seg.session, seg.offset>> \in seen
            THEN Stitch(sessions, seen, Tail(segs))
            ELSE Stitch(
                   IF ~ known
                   THEN Append(sessions,
                               [id |-> seg.session, messages |-> seg.messages,
                                startedAt |-> seg.startedAt,
                                updatedAt |-> seg.updatedAt])
                   ELSE [i \in 1..Len(sessions) |->
                           IF sessions[i].id # seg.session THEN sessions[i]
                           ELSE [id |-> seg.session,
                                 messages |-> sessions[i].messages \o seg.messages,
                                 startedAt |-> Min(seg.startedAt, sessions[i].startedAt),
                                 updatedAt |-> Max(seg.updatedAt, sessions[i].updatedAt)]],
                   seen \cup {<<seg.session, seg.offset>>},
                   Tail(segs))

\* pullConversations on the listing infos: the conversations, sorted by
\* updatedAt (a stable sort).
PullConversations(infos) ==
    LET sessions == Stitch(<<>>, {}, SortedSegments(SegmentPayloads(infos)))
        Rank(i) == Cardinality({ j \in 1..Len(sessions) :
                      \/ sessions[j].updatedAt < sessions[i].updatedAt
                      \/ sessions[j].updatedAt = sessions[i].updatedAt /\ j < i })
    IN [n \in 1..Len(sessions) |->
          sessions[CHOOSE i \in 1..Len(sessions) : Rank(i) = n - 1]]

\* The chunks the wallet's pushes can have put on the ledger: piece index of
\* total of the ciphertext `cipher` of a segment at an offset of a session,
\* uploaded at second timestamp; the segment has as many messages as pieces
\* and was parsed at second `cipher`.
SegmentChunkTxs ==
    UNION { { [session |-> sid, offset |-> o, count |-> n, timestamp |-> t,
               chunkIndex |-> i, chunkTotal |-> n, fault |-> "ok",
               messages |-> [j \in 1..n |-> <<sid, o + j>>],
               cipher |-> c, piece |-> Piece(n * MAX_SHARD_BYTES, i),
               startedAt |-> c, updatedAt |-> c]
              : sid \in {Session, "s2"}, o \in 0..1, i \in 1..n,
                t \in 0..1, c \in 1..2 }
            : n \in 1..2 }

\* A push of the wallet puts a chunk on the ledger; what an earlier pull
\* returned is forgotten.
SegmentChunkUpload(tx) ==
    /\ BagCardinality(convLedger) < MaxLedger
    /\ convLedger' = convLedger (+) SetToBag({tx})
    /\ eval' = NoEval
    /\ UNCHANGED <<db, pushes, ledger, identity, restored, deletedKeys, lastAbort,
                   serial, cli, opLog, transcript, fileStates, uploads, retryDue,
                   now, call, pushCmd, identityTxs>>

\* pullConversations is called: the ledger lists the chunks in any order.
PullConversationsCall ==
    /\ \E infos \in QueryShards(convLedger) :
          eval' = [fn |-> "pullConversations", infos |-> infos,
                   segmentPayloads |-> SegmentPayloads(infos),
                   conversations |-> PullConversations(infos)]
    /\ eval' # eval
    /\ UNCHANGED <<db, pushes, ledger, identity, restored, deletedKeys, lastAbort,
                   serial, cli, opLog, convVars, call, pushCmd, identityTxs>>

NextPullConversations ==
    \/ \E tx \in SegmentChunkTxs : SegmentChunkUpload(tx)
    \/ PullConversationsCall

SpecPullConversations == Init /\ [][NextPullConversations]_vars

----------------------------------------------------------------------------
(* core/db.ts : the store operations called in any order. *)

\* The log with one more operation, the oldest dropped when it is full.
Logged(entry) ==
    IF Len(opLog) < MaxLog THEN Append(opLog, entry)
    ELSE Append(Tail(opLog), entry)

\* The facts a caller passes to upsertFact.
\* The facts the tools and commands pass to upsertFact: stamped with the
\* clock, access_count 0.
FactInputs ==
    { [key |-> FullKey(in[1], in[3]), value |-> in[2], scope |-> in[3],
       created |-> now, last_confirmed |-> now, access_count |-> 0] :
        in \in StoreInputs }

UpsertFactCall(fact) ==
    /\ db' = UpsertFact(db, fact)
    /\ opLog' = Logged([op |-> "upsert", key |-> fact.key])
    /\ UNCHANGED <<auxVars, pushes, ledger, identity, restored, deletedKeys, lastAbort,
                   serial, cli, convVars>>

\* deleteFact on any key, in the store or not.
DeleteFactCall(key) ==
    /\ db' = DeleteFact(db, key)
    /\ opLog' = Logged([op |-> "delete", key |-> key])
    /\ UNCHANGED <<auxVars, pushes, ledger, identity, restored, deletedKeys, lastAbort,
                   serial, cli, convVars>>

\* recall_context: incrementAccessCount for a fact it returns.
IncrementAccessCountCall(key) ==
    /\ HasFact(db, key) => GetFact(db, key).access_count < MaxAccessCount
    /\ db' = IncrementAccessCount(db, key)
    /\ opLog' = Logged([op |-> "access", key |-> key])
    /\ UNCHANGED <<auxVars, pushes, ledger, identity, restored, deletedKeys, lastAbort,
                   serial, cli, convVars>>

ClearDirtyStateCall ==
    /\ db' = ClearDirtyState(db)
    /\ opLog' = Logged([op |-> "clear", key |-> Null])
    /\ UNCHANGED <<auxVars, pushes, ledger, identity, restored, deletedKeys, lastAbort,
                   serial, cli, convVars>>

NextDb ==
    \/ \E fact \in FactInputs : UpsertFactCall(fact)
    \/ \E k \in Keys : DeleteFactCall(k)
    \/ ClearDirtyStateCall

SpecDb == Init /\ [][NextDb]_vars

----------------------------------------------------------------------------
(* core/db.ts : the store called with the facts of any caller. *)

Timestamps == 0..MaxClock

\* Facts as any caller of upsertFact builds them: created no later than
\* last_confirmed, access_count 0.
CallerFacts ==
    { [key |-> in[1], value |-> "short", scope |-> in[2],
       created |-> t[1], last_confirmed |-> t[2], access_count |-> 0] :
        in \in {<<"global:k1", "global">>, <<"project:p:k2", "project:p">>},
        t \in { u \in Timestamps \X Timestamps : u[1] <= u[2] } }

NextFacts ==
    \/ \E fact \in CallerFacts : UpsertFactCall(fact)
    \/ \E k \in Keys : DeleteFactCall(k)
    \/ \E k \in Keys : IncrementAccessCountCall(k)
    \/ ClearDirtyStateCall

SpecFacts == Init /\ [][NextFacts]_vars

----------------------------------------------------------------------------
(* core/db.ts : a store call statement by statement, each statement        *)
(* committed on its own, in a process that can stop between two of them.   *)

\* upsertFact: the INSERT has run, the DELETE FROM pending_deletes has not.
UpsertRowStatement(fact) ==
    /\ call = NoCall
    /\ db' = InsertOrUpdateRow(db, fact)
    /\ call' = [op |-> "upsert", pc |-> "tombstone", key |-> fact.key,
                fact |-> fact, exists |-> FALSE]
    /\ UNCHANGED <<pushes, ledger, identity, restored, deletedKeys, lastAbort,
                   serial, cli, opLog, convVars, eval, pushCmd, identityTxs>>

UpsertTombstoneStatement ==
    /\ call.op = "upsert"
    /\ db' = RemoveTombstone(db, call.key)
    /\ call' = NoCall
    /\ UNCHANGED <<pushes, ledger, identity, restored, deletedKeys, lastAbort,
                   serial, cli, opLog, convVars, eval, pushCmd, identityTxs>>

\* deleteFact: the SELECT has run.
DeleteSelectStatement(key) ==
    /\ call = NoCall
    /\ call' = [op |-> "delete", pc |-> "row", key |-> key, fact |-> Null,
                exists |-> HasFact(db, key)]
    /\ UNCHANGED <<db, pushes, ledger, identity, restored, deletedKeys, lastAbort,
                   serial, cli, opLog, convVars, eval, pushCmd, identityTxs>>

DeleteRowStatement ==
    /\ call.op = "delete"
    /\ call.pc = "row"
    /\ db' = DeleteRow(db, call.key)
    /\ call' = IF call.exists THEN [call EXCEPT !.pc = "tombstone"] ELSE NoCall
    /\ UNCHANGED <<pushes, ledger, identity, restored, deletedKeys, lastAbort,
                   serial, cli, opLog, convVars, eval, pushCmd, identityTxs>>

DeleteTombstoneStatement ==
    /\ call.op = "delete"
    /\ call.pc = "tombstone"
    /\ db' = InsertTombstone(db, call.key)
    /\ call' = NoCall
    /\ UNCHANGED <<pushes, ledger, identity, restored, deletedKeys, lastAbort,
                   serial, cli, opLog, convVars, eval, pushCmd, identityTxs>>

\* The process is killed between two statements; the database file stays.
Crash ==
    /\ call # NoCall
    /\ call' = NoCall
    /\ UNCHANGED <<db, pushes, ledger, identity, restored, deletedKeys, lastAbort,
                   serial, cli, opLog, convVars, eval, pushCmd, identityTxs>>

NextStatements ==
    \/ \E fact \in FactInputs : UpsertRowStatement(fact)
    \/ UpsertTombstoneStatement
    \/ \E k \in Keys : DeleteSelectStatement(k)
    \/ DeleteRowStatement
    \/ DeleteTombstoneStatement
    \/ Crash

SpecStatements == Init /\ [][NextStatements]_vars

----------------------------------------------------------------------------
(* core/shard.ts : createChunkedShards and replayShards called on their    *)
(* own, with any arguments.                                                *)

\* The sequences of at most n elements of S.
SeqsUpTo(S, n) == UNION { [1..m -> S] : m \in 0..n }

\* The operations of the lists passed to createChunkedShards.
ShortUpsert ==
    FactToUpsertOp([key |-> "global:k1", value |-> "short", scope |-> "global"])

OpInputs ==
    { ShortUpsert,
      FactToUpsertOp([key |-> "project:p:k2", value |-> "long", scope |-> "project:p"]),
      DeleteOp("global:k1") }

\* The limits passed as maxEncryptedBytes: the default; one that the wrapper
\* with two short upserts fills to the byte; one that the wrapper with one
\* short upsert fills to the byte; one smaller than any operation.
Limits ==
    { MAX_SHARD_BYTES,
      WrapperSize + 2 * (OpJsonBytes(ShortUpsert) + 1) + ENCRYPTION_OVERHEAD,
      WrapperSize + (OpJsonBytes(ShortUpsert) + 1) + ENCRYPTION_OVERHEAD,
      100 }

StartVersions == {1, 10000000}

SessionIds == {Uuid, LongSession}

\* The shards of the lists passed to replayShards.
ShardInputs ==
    { [shard_version |-> v, timestamp |-> t, session_id |-> sid, operations |-> ops] :
        v \in {1, 2}, t \in Timestamps, sid \in SessionIds,
        ops \in PullOps \cup {<<ShortUpsert, DeleteOp("global:k1")>>} }

ChunkEvals ==
    { [fn |-> "createChunkedShards", operations |-> ops, startVersion |-> v,
       sessionId |-> sid, maxEncryptedBytes |-> l, shards |-> <<>>,
       returned |-> FALSE, facts |-> <<>>] :
        ops \in SeqsUpTo(OpInputs, MaxOps), v \in StartVersions,
        sid \in SessionIds, l \in Limits }

ReplayEvals ==
    { [fn |-> "replayShards", operations |-> <<>>, startVersion |-> 0,
       sessionId |-> Uuid, maxEncryptedBytes |-> 0, shards |-> shards,
       returned |-> FALSE, facts |-> <<>>] :
        shards \in SeqsUpTo(ShardInputs, MaxShards) }

CreateChunkedShardsCall ==
    /\ eval.fn = "createChunkedShards"
    /\ ~ eval.returned
    /\ eval' = [eval EXCEPT
                  !.shards = CreateChunkedShards(eval.operations, eval.startVersion,
                                                 eval.sessionId,
                                                 eval.maxEncryptedBytes),
                  !.returned = TRUE]
    /\ UNCHANGED <<db, pushes, ledger, identity, restored, deletedKeys, lastAbort,
                   serial, cli, opLog, convVars, call, pushCmd, identityTxs>>

\* The shards are sorted by version and replayed, as after a download.
ReplayShardsCall ==
    /\ eval.fn = "replayShards"
    /\ ~ eval.returned
    /\ eval' = [eval EXCEPT !.facts = ReplayShards(SortByVersion(eval.shards)),
                            !.returned = TRUE]
    /\ UNCHANGED <<db, pushes, ledger, identity, restored, deletedKeys, lastAbort,
                   serial, cli, opLog, convVars, call, pushCmd, identityTxs>>

InitShard ==
    /\ db = InitDb
    /\ pushes = <<>>
    /\ ledger = EmptyBag
    /\ identity = "ok"
    /\ restored = NotPulled
    /\ deletedKeys = {}
    /\ lastAbort = NoAbort
    /\ serial = TRUE
    /\ cli = IdleCli
    /\ opLog = <<>>
    /\ InitConversations
    /\ call = NoCall
    /\ eval \in ChunkEvals \cup ReplayEvals
    /\ pushCmd = IdlePush
    /\ identityTxs = 0

NextShard ==
    \/ CreateChunkedShardsCall
    \/ ReplayShardsCall

SpecShard == InitShard /\ [][NextShard]_vars

----------------------------------------------------------------------------
(* cli/push.ts : the push command, run to its end before it is run again,  *)
(* on shard files written from the dirty facts.                            *)

\* The shard command: the dirty state is written to shard files, one per
\* version, and cleared; current_version moves to the last version written.
WriteShards ==
    LET shards == CreateChunkedShards(Operations(db), StartVersion(db), Uuid,
                                      MAX_SHARD_BYTES)
    IN /\ Len(shards) > 0
       /\ CurrentVersion(db) + Len(shards) <= MaxTagVersion
       /\ pushCmd' = [pushCmd EXCEPT !.files = pushCmd.files \o shards]
       /\ db' = SetMeta(ClearDirtyState(db), "current_version",
                        String(shards[Len(shards)].shard_version))
       /\ UNCHANGED <<pushes, ledger, identity, restored, deletedKeys, lastAbort,
                      serial, cli, opLog, convVars, call, eval, identityTxs>>

\* The shard files with a version above last_pushed_version, sorted by name.
Unpushed(d, files) ==
    LET lastPushed == ParseInt(IF GetMeta(d, "last_pushed_version") = Null THEN "0"
                               ELSE GetMeta(d, "last_pushed_version"))
    IN SelectSeq(SortByVersion(files), LAMBDA f : f.shard_version > lastPushed)

\* pushCommand from the listing of the shard files to its first upload, or
\* to its end when nothing is left to push.
ListShards(d, cmd) ==
    IF Unpushed(d, cmd.files) = <<>>
    THEN [cmd EXCEPT !.pc = "idle", !.queue = <<>>]
    ELSE [cmd EXCEPT !.pc = "shards", !.queue = Unpushed(d, cmd.files)]

\* The transaction id an upload returns.
TxId(n) == "tx" \o ToString(n)

\* The store after pushIdentity has returned and nothing was recorded.
AfterIdentityUploadUnrecorded(d, txId) == d

\* The store after pushIdentity has returned its transaction id.
AfterIdentityUpload(d, txId) == SetMeta(d, "identity_pushed", txId)

\* pushCommand up to its first await.
PushCommand ==
    /\ pushCmd.pc = "idle"
    /\ identityTxs < MaxIdentityTxs
    /\ pushCmd' = IF GetMeta(db, "identity_pushed") = Null
                  THEN [pushCmd EXCEPT !.pc = "identity"]
                  ELSE ListShards(db, pushCmd)
    /\ UNCHANGED <<db, pushes, ledger, identity, restored, deletedKeys, lastAbort,
                   serial, cli, opLog, convVars, call, eval, identityTxs>>

\* pushIdentity returns a transaction id.
IdentityUploadSucceeds ==
    /\ pushCmd.pc = "identity"
    /\ identityTxs' = identityTxs + 1
    /\ identity' = "ok"
    /\ db' = AfterIdentityUpload(db, TxId(identityTxs + 1))
    /\ pushCmd' = ListShards(db', pushCmd)
    /\ UNCHANGED <<pushes, ledger, restored, deletedKeys, lastAbort,
                   serial, cli, opLog, convVars, call, eval>>

\* pushIdentity throws: the command ends with the error.
IdentityUploadFails ==
    /\ pushCmd.pc = "identity"
    /\ pushCmd' = [pushCmd EXCEPT !.pc = "idle"]
    /\ UNCHANGED <<db, pushes, ledger, identity, restored, deletedKeys, lastAbort,
                   serial, cli, opLog, convVars, call, eval, identityTxs>>

\* pushShard returns for the first file of the queue.
ShardFileUploadSucceeds ==
    /\ pushCmd.pc = "shards"
    /\ BagCardinality(ledger) < MaxLedger
    /\ ledger' = ledger (+) SetToBag({ShardTx(Head(pushCmd.queue), "delta")})
    /\ db' = SetMeta(db, "last_pushed_version",
                     String(Head(pushCmd.queue).shard_version))
    /\ pushCmd' = IF Len(pushCmd.queue) > 1
                  THEN [pushCmd EXCEPT !.queue = Tail(pushCmd.queue)]
                  ELSE [pushCmd EXCEPT !.pc = "idle", !.queue = <<>>]
    /\ UNCHANGED <<pushes, identity, restored, deletedKeys, lastAbort,
                   serial, cli, opLog, convVars, call, eval, identityTxs>>

\* pushShard throws: the command ends with the error.
ShardFileUploadFails ==
    /\ pushCmd.pc = "shards"
    /\ pushCmd' = [pushCmd EXCEPT !.pc = "idle", !.queue = <<>>]
    /\ UNCHANGED <<db, pushes, ledger, identity, restored, deletedKeys, lastAbort,
                   serial, cli, opLog, convVars, call, eval, identityTxs>>

\* After initCommand and before any push: no identity record on the ledger.
InitPushCommand ==
    /\ db = InitDb
    /\ pushes = <<>>
    /\ ledger = EmptyBag
    /\ identity = "none"
    /\ restored = NotPulled
    /\ deletedKeys = {}
    /\ lastAbort = NoAbort
    /\ serial = TRUE
    /\ cli = IdleCli
    /\ opLog = <<>>
    /\ InitConversations
    /\ InitAux

NextPushCommand ==
    \/ \E in \in StoreInputs : StoreFact(in[1], in[2], in[3])
    \/ \E k \in Keys : DeleteFactTool(k)
    \/ WriteShards
    \/ PushCommand
    \/ IdentityUploadSucceeds
    \/ IdentityUploadFails
    \/ ShardFileUploadSucceeds
    \/ ShardFileUploadFails

SpecPushCommand == InitPushCommand /\ [][NextPushCommand]_vars

----------------------------------------------------------------------------
(* index.ts : the background sync of a wallet made by initCommand, next to *)
(* the push command and a restore on another machine.                      *)

\* startMcpServer starts the timer when identity.enc exists, which
\* initCommand wrote; syncDirtyFacts reads neither identity_pushed nor the
\* ledger's identity record.
NextSync ==
    \/ \E in \in StoreInputs : StoreFact(in[1], in[2], in[3])
    \/ \E k \in Keys : DeleteFactTool(k)
    \/ pushes = <<>> /\ Tick
    \/ \E i \in 1..Len(pushes) : UploadSucceeds(i)
    \/ \E i \in 1..Len(pushes) : UploadFails(i)
    \/ PushCommand
    \/ IdentityUploadSucceeds
    \/ IdentityUploadFails
    \/ Pull

SpecSync == InitPushCommand /\ [][NextSync]_vars

----------------------------------------------------------------------------
(* Properties of the push. *)

Clean(d) == GetDirtyFacts(d) = <<>> /\ GetPendingDeletes(d) = <<>>

\* The key, value and scope of every fact of a list.
Content(facts) ==
    { [key |-> facts[i].key, value |-> facts[i].value, scope |-> facts[i].scope]
      : i \in 1..Len(facts) }

LedgerTxs == BagToSet(ledger)

\* Some uploaded shard holds the operation.
Uploaded(op) ==
    \E tx \in LedgerTxs :
        \E n \in 1..Len(tx.shard.operations) : tx.shard.operations[n] = op

LastPushedVersion(d) ==
    ParseInt(IF GetMeta(d, "last_pushed_version") = Null THEN "0"
             ELSE GetMeta(d, "last_pushed_version"))

\* C1: after tool calls and pushes that ran one after the other (uploads may
\* fail and be retried), once a push has completed and nothing is dirty or
\* pending, a restore on a fresh machine, whatever the order in which the
\* ledger lists the shards, yields the local keys with their values and scopes.
C1_RestoreEqualsLocal ==
    (serial /\ pushes = <<>> /\ Clean(db) /\ CurrentVersion(db) > 0) =>
        \A query \in QueryShards(ledger) :
            /\ PullAndReconstruct(identity, query).status = "ok"
            /\ Content(PullAndReconstruct(identity, query).db.facts) = Content(db.facts)

\* C2: every fact that is not dirty has its current value in an uploaded
\* shard, and every key removed by delete_fact that has no tombstone has a
\* delete operation in an uploaded shard.
C2_CleanIsUploaded ==
    /\ \A i \in 1..Len(db.facts) :
          db.facts[i].dirty = 0 => Uploaded(FactToUpsertOp(db.facts[i]))
    /\ \A k \in deletedKeys :
          (\A n \in 1..Len(db.pending) : db.pending[n] # k) => Uploaded(DeleteOp(k))

\* A step of a push other than its commit: the call starts, an upload returns
\* with more shards to go, or an upload throws.
PushStepBeforeCommit ==
    /\ pushes' # pushes
    /\ ~ (ledger' # ledger /\ Len(pushes') < Len(pushes))

\* C3: a failed upload ends the push (its later shards are not uploaded), and
\* no step of a push before its commit changes the facts with their dirty
\* flags, the pending deletions or meta.current_version: an aborted push
\* leaves them as they were before it.
C3_AbortKeepsStore ==
    [][ PushStepBeforeCommit =>
          /\ db'.facts = db.facts
          /\ db'.pending = db.pending
          /\ GetMeta(db', "current_version") = GetMeta(db, "current_version")
          /\ (ledger' = ledger /\ Len(pushes') <= Len(pushes))
                => Len(pushes') < Len(pushes) ]_vars

\* A push has aborted after uploading a shard, and its mutations are still
\* dirty.
C3_Witness == lastAbort.v > 0 /\ ~ Clean(db)

\* C4: at most one push is in flight at any time.
C4_SingleFlight == Len(pushes) <= 1

\* C5: across pushes that ran one after the other (aborted and retried ones
\* included), no two uploaded data shards carry the same Version.
C5_NoDuplicateVersions ==
    serial =>
        \A t \in LedgerTxs :
            /\ CopiesIn(t, ledger) = 1
            /\ \A u \in LedgerTxs : u # t => u.version # t.version

\* C6: the tick that follows a push aborted after uploading up to version v
\* starts above v and carries none of the operations already uploaded.
C6_RetryOnlyUnpushed ==
    [][ (serial /\ lastAbort.v > 0 /\ Len(pushes') = Len(pushes) + 1) =>
          /\ pushes'[Len(pushes')].shards[1].shard_version > lastAbort.v
          /\ OpsOf(pushes'[Len(pushes')].shards) \cap lastAbort.ops = {} ]_vars

\* C7: for every uploaded data shard of version v, meta.last_pushed_version
\* and meta.current_version are at least v.
C7_MetaCoversUploads ==
    \A tx \in LedgerTxs :
        /\ LastPushedVersion(db) >= tx.version
        /\ CurrentVersion(db) >= tx.version

----------------------------------------------------------------------------
(* Properties of the restore. *)

\* The greatest Version among the snapshots listed, 0 when none is listed.
SnapshotFloor ==
    IF \E tx \in LedgerTxs : tx.type = "snapshot"
    THEN MaxOf({ tx.version : tx \in { t \in LedgerTxs : t.type = "snapshot" } })
    ELSE 0

\* The listed transactions the restore downloads.
FetchedTxs == { tx \in LedgerTxs : tx.version >= SnapshotFloor }

Pulled == restored.status # "none"

\* The valid shards among the fetched entries of a listing, in its order.
ValidFetched(query) ==
    LET kept == SelectSeq(query, LAMBDA tx : tx \in FetchedTxs /\ tx.fault = "ok")
    IN [i \in 1..Len(kept) |-> kept[i].shard]

C9_VersionIsMaxListed ==
    (restored.status = "ok" /\ ledger # EmptyBag) =>
        GetMeta(restored.db, "current_version")
            = String(MaxOf({ tx.version : tx \in LedgerTxs }))

\* A successful restore where the greatest listed Version belongs to a shard
\* that was skipped, and a listed shard is older than the snapshot chosen.
C9_Witness ==
    /\ restored.status = "ok"
    /\ \E tx \in LedgerTxs :
          /\ tx.fault # "ok"
          /\ \A u \in LedgerTxs : u.fault = "ok" => u.version < tx.version

\* C10: when data shards are listed and none of those downloaded survives, the
\* restore fails with an error other than the identity-missing one and writes
\* no database: no fact and no meta entry.
C10_NoStoreWhenNoneSurvives ==
    (Pulled /\ identity = "ok" /\ ledger # EmptyBag
        /\ \A tx \in FetchedTxs : tx.fault # "ok") =>
        /\ restored.status = "NoRecoverableShards"
        /\ restored.status # PullAndReconstruct("none", <<>>).status
        /\ ~ restored.exists
        /\ restored.db.facts = <<>>
        /\ \A k \in MetaKeys : GetMeta(restored.db, k) = Null

\* A restore that failed because no listed shard survived.
C10_Witness ==
    /\ Pulled
    /\ identity = "ok"
    /\ ledger # EmptyBag
    /\ \A tx \in LedgerTxs : tx.fault # "ok"

\* C11: during a pull a data shard is passed to decrypt only after its
\* signature tag was found present and verified, and the chunks of a
\* conversation group are joined and passed to decrypt only after each of them
\* was: no blob with a missing or invalid signature is decrypted.
C11_VerifyBeforeDecrypt ==
    /\ \A query \in QueryShards(ledger) :
          \A tx \in DecryptCalls(identity, query) :
              tx.fault # "nosig" /\ tx.fault # "badsig"
    /\ \A infos \in QueryShards(convLedger) :
          \A joined \in ConversationDecryptCalls(infos) :
              \A i \in 1..Len(joined) :
                  joined[i].fault # "nosig" /\ joined[i].fault # "badsig"

\* A restore has skipped a data shard that does not verify, and the ledger
\* holds a complete conversation group whose chunk does not verify.
C11_Witness ==
    /\ Pulled
    /\ identity = "ok"
    /\ \E tx \in FetchedTxs : tx.fault = "nosig" \/ tx.fault = "badsig"
    /\ \E c \in BagToSet(convLedger) :
          /\ c.chunkIndex = 1 /\ c.chunkTotal = 1
          /\ (c.fault = "nosig" \/ c.fault = "badsig")

\* C12: when a restore from a recovery phrase has failed (invalid phrase,
\* identity missing, wrong passphrase, identity mismatch, no recoverable
\* shards, ledger unreachable), nothing it created is left: no home directory,
\* no database with facts or meta entries, no salt file, no identity file.
C12_FailedRestoreLeavesNothing ==
    cli.pc = "failed" =>
        /\ ~ cli.dir
        /\ ~ restored.exists
        /\ restored.db = EmptyDb
        /\ ~ cli.salt
        /\ ~ cli.identityFile

\* A restore that failed on the identity comparison, after the facts, the salt
\* file and the identity file had been written.
C12_Witness ==
    /\ cli.pc = "failed"
    /\ cli.error = "IdentityMismatch"
    /\ \E tx \in LedgerTxs : tx.fault = "ok"

\* C13: with an identity record that decrypts to a key other than the one
\* derived from the phrase, no fact store is written at any point of the
\* restore (the comparison comes before the shards are fetched), and a restore
\* that reached the ledger fails with the identity-mismatch error.
C13_KeyComparedBeforePull ==
    identity = "otherkey" =>
        /\ ~ restored.exists
        /\ (cli.pc = "failed" /\ cli.error # "BadPhrase"
               /\ cli.error # "NetworkError" /\ cli.error # "IdentityMissing")
              => cli.error = "IdentityMismatch"

\* C14 as claimed: a pull over a ledger that holds no shard for the wallet, an
\* empty ledger included, succeeds with an empty fact store and
\* current_version 0.
C14_NoShardGivesEmptyStore ==
    (Pulled /\ ledger = EmptyBag) =>
        /\ restored.status = "ok"
        /\ restored.db.facts = <<>>
        /\ GetMeta(restored.db, "current_version") = String(0)

\* C14: a pull over a ledger that holds the wallet's identity record,
\* decryptable with the passphrase, and no data shard succeeds with an empty
\* fact store and current_version 0.
C14_IdentityAloneGivesEmptyStore ==
    (Pulled /\ identity = "ok" /\ ledger = EmptyBag) =>
        /\ restored.status = "ok"
        /\ restored.exists
        /\ restored.db.facts = <<>>
        /\ GetMeta(restored.db, "current_version") = String(0)

\* A pull of a ledger with the identity record and no data shard.
C14_Witness == Pulled /\ identity = "ok" /\ ledger = EmptyBag

----------------------------------------------------------------------------
(* Properties of the conversation push. *)

\* Every chunk of the segment of the suspended call p is on the ledger.
SegmentUploaded(p, txs) ==
    \A n \in 1..p.total :
        \E tx \in BagToSet(txs) :
            /\ tx.chunkIndex = n
            /\ tx.chunkTotal = p.total
            /\ tx.offset = p.offset
            /\ tx.messages = p.delta

\* C15: the conversation cursor changes only in the step in which the last
\* chunk of a segment has been uploaded, every chunk of the segment then being
\* on the ledger, and it becomes the number of messages of the conversation
\* pushed, so that pushing the same conversation again uploads nothing; a
\* failed chunk upload leaves the cursor as it was.
C15_CursorAfterAllChunks ==
    [][ /\ GetMeta(db', StateKey) # GetMeta(db, StateKey) =>
              \E i \in 1..Len(uploads) :
                  /\ uploads[i].next = uploads[i].total
                  /\ uploads' = RemoveAt(uploads, i)
                  /\ convLedger' = convLedger (+) SetToBag({ChunkTx(uploads[i])})
                  /\ SegmentUploaded(uploads[i], convLedger')
                  /\ GetMeta(db', StateKey) = String(Len(uploads[i].conversation))
                  /\ StartUpload(uploads[i].conversation, Cursor(db'), now',
                                 transcript'.rev).delta = <<>>
        /\ (Len(uploads') < Len(uploads) /\ convLedger' = convLedger) =>
              GetMeta(db', StateKey) = GetMeta(db, StateKey) ]_vars

\* The cursor was written after a segment of two chunks was uploaded.
C15_Witness ==
    /\ Cursor(db) = 3
    /\ \E tx \in BagToSet(convLedger) : tx.chunkIndex = 2 /\ tx.chunkTotal = 2

\* C16: the watcher tick that follows a conversation push that failed
\* part-way, with no other push of the session in flight and messages beyond
\* the cursor in the transcript, starts a push of the full segment from the
\* unchanged cursor, whether or not the file has changed since.
C16_RetryAfterFailure ==
    [][ (retryDue /\ ~ retryDue' /\ uploads = <<>>
            /\ Cursor(db) < Len(transcript.messages)) =>
          /\ Len(uploads') = 1
          /\ uploads'[1].offset = Cursor(db)
          /\ uploads'[1].delta = SubSeq(transcript.messages, Cursor(db) + 1,
                                        Len(transcript.messages)) ]_vars

\* C17: the conversation cursor of the session never decreases.
C17_CursorMonotonic == [][ Cursor(db') >= Cursor(db) ]_vars

\* C18: at most one conversation push of the session is in flight.
C18_OneUploadPerSession == Len(uploads) <= 1

----------------------------------------------------------------------------
(* Properties of the store operations. *)

\* The latest n operations of the log, or the empty sequence if it is shorter.
LastOps(n) == IF Len(opLog) >= n THEN SubSeq(opLog, Len(opLog) - n + 1, Len(opLog))
              ELSE <<>>

Upsert(k) == [op |-> "upsert", key |-> k]

Delete(k) == [op |-> "delete", key |-> k]

\* C19: whatever the store held before, after upsertFact(k) then
\* deleteFact(k) the key k is absent from facts and is in pending_deletes;
\* after a further upsertFact(k) it is in facts, dirty, and not in
\* pending_deletes.
C19_UpsertDeleteUpsert ==
    \A k \in Keys :
        /\ LastOps(2) = <<Upsert(k), Delete(k)>> =>
              /\ ~ HasFact(db, k)
              /\ \E i \in 1..Len(db.pending) : db.pending[i] = k
        /\ LastOps(3) = <<Upsert(k), Delete(k), Upsert(k)>> =>
              /\ HasFact(db, k)
              /\ GetFact(db, k).dirty = 1
              /\ \A i \in 1..Len(db.pending) : db.pending[i] # k

\* The three operations ran on a store that held another fact.
C19_Witness ==
    /\ opLog = <<Upsert("global:k1"), Delete("global:k1"), Upsert("global:k1")>>
    /\ HasFact(db, "global:k1")
    /\ HasFact(db, "project:p:k2")

\* C20: deleteFact of a key that is not in facts leaves facts and
\* pending_deletes as they were, so the operations of the next push are the
\* same and hold no delete of the key unless it was already pending.
C20_DeleteMissingIsNoOp ==
    [][ \A k \in Keys :
          (opLog' # <<>> /\ opLog'[Len(opLog')] = Delete(k) /\ ~ HasFact(db, k)) =>
              /\ db'.facts = db.facts
              /\ db'.pending = db.pending
              /\ Operations(db') = Operations(db)
              /\ (\A i \in 1..Len(db.pending) : db.pending[i] # k) =>
                    \A i \in 1..Len(Operations(db')) :
                        Operations(db')[i] # DeleteOp(k) ]_vars

\* The second operation ever run was deleteFact of a key never stored.
C20_Witness ==
    /\ opLog = <<Upsert("project:p:k2"), Delete("global:k1")>>
    /\ HasFact(db, "project:p:k2")
    /\ db.pending = <<>>

Clear == [op |-> "clear", key |-> Null]

\* C21: clearDirtyState leaves no dirty fact and no pending delete, removes
\* no row and changes nothing of a row but its dirty flag; the upsertFact
\* that follows it makes its own key, and no other, dirty.
C21_ClearDirtyFrame ==
    [][ /\ (opLog' # <<>> /\ opLog'[Len(opLog')] = Clear) =>
              /\ GetDirtyFacts(db') = <<>>
              /\ GetPendingDeletes(db') = <<>>
              /\ Len(db'.facts) = Len(db.facts)
              /\ \A i \in 1..Len(db.facts) :
                     db'.facts[i] = [db.facts[i] EXCEPT !.dirty = 0]
              /\ db'.meta = db.meta
        /\ \A k \in Keys :
              (opLog # <<>> /\ opLog[Len(opLog)] = Clear
                  /\ opLog'[Len(opLog')] = Upsert(k)) =>
                 \A i \in 1..Len(db'.facts) :
                     (db'.facts[i].dirty = 1) <=> (db'.facts[i].key = k) ]_vars

\* A store with a clean fact and, upserted after the clear, a dirty one.
C21_Witness ==
    /\ opLog = <<Upsert("project:p:k2"), Clear, Upsert("global:k1")>>
    /\ Len(GetDirtyFacts(db)) = 1
    /\ Len(db.facts) = 2

InPending(d, key) == \E i \in 1..Len(d.pending) : d.pending[i] = key

\* C22: no state of the database, as another process or a restart after a
\* crash finds it, has a key both in facts and in pending_deletes, or has a
\* key that deleteFact removed from facts without its tombstone.
C22_AtomicMutations ==
    \A k \in Keys :
        /\ ~ (HasFact(db, k) /\ InPending(db, k))
        /\ ~ (call.op = "delete" /\ call.key = k /\ call.pc = "tombstone"
                 /\ call.exists /\ ~ InPending(db, k))

\* C23: every fact of the store has created no later than last_confirmed.
C23_CreatedBeforeConfirmed ==
    \A i \in 1..Len(db.facts) : db.facts[i].created <= db.facts[i].last_confirmed

\* C24: while a fact exists its access_count never goes down, and a step
\* that raises it raises it by one for one key and changes no other row.
C24_AccessCountMonotonic ==
    [][ \A k \in Keys :
          (HasFact(db, k) /\ HasFact(db', k)) =>
              /\ GetFact(db', k).access_count >= GetFact(db, k).access_count
              /\ GetFact(db', k).access_count > GetFact(db, k).access_count =>
                    /\ db' = IncrementAccessCount(db, k)
                    /\ GetFact(db', k).access_count
                          = GetFact(db, k).access_count + 1
                    /\ \A j \in Keys \ {k} :
                          HasFact(db, j) => GetFact(db', j) = GetFact(db, j) ]_vars

----------------------------------------------------------------------------
(* Properties of the shard functions. *)

\* The orderings of a sequence.
Orderings(s) ==
    { [i \in 1..Len(s) |-> s[p[i]]] :
        p \in { q \in [1..Len(s) -> 1..Len(s)] :
                  \A i, j \in 1..Len(s) : q[i] = q[j] => i = j } }

Ascending(shards) ==
    \A i \in 1..(Len(shards) - 1) :
        shards[i].shard_version <= shards[i + 1].shard_version

\* C25: replaying any ordering of the shards that is ascending by version
\* gives the fact map that replaying them sorted by version gave.
C25_ReplayOrderIndependent ==
    (eval.fn = "replayShards" /\ eval.returned) =>
        \A shards \in Orderings(eval.shards) :
            Ascending(shards) => ReplayShards(shards) = eval.facts

RECURSIVE ConcatOperations(_)
ConcatOperations(shards) ==
    IF shards = <<>> THEN <<>>
    ELSE Head(shards).operations \o ConcatOperations(Tail(shards))

\* C26: the operations of the shards createChunkedShards returns, taken in
\* version order, are the operations passed, so replaying the shards gives
\* what replaying one shard of all the operations gives; an operation larger
\* than the limit is the only operation of its shard.
C26_ChunksKeepOperations ==
    (eval.fn = "createChunkedShards" /\ eval.returned) =>
        /\ ConcatOperations(SortByVersion(eval.shards)) = eval.operations
        /\ ReplayShards(eval.shards)
              = ReplayShards(<<CreateShard(eval.operations, eval.startVersion,
                                           eval.sessionId)>>)
        /\ \A i \in 1..Len(eval.operations) :
              OpJsonBytes(eval.operations[i]) > eval.maxEncryptedBytes =>
                  \E j \in 1..Len(eval.shards) :
                      eval.shards[j].operations = <<eval.operations[i]>>

\* Three operations, one of them larger than the limit, came back in more
\* than one shard.
C26_Witness ==
    /\ eval.fn = "createChunkedShards"
    /\ eval.returned
    /\ Len(eval.operations) = 3
    /\ Len(eval.shards) > 1
    /\ \E i \in 1..3 : /\ OpJsonBytes(eval.operations[i]) > eval.maxEncryptedBytes
                        /\ eval.operations[i].op = "upsert"
    /\ \E i \in 1..3 : OpJsonBytes(eval.operations[i]) <= eval.maxEncryptedBytes

\* C27: every shard createChunkedShards returns serializes, with the
\* encryption overhead added, to at most the limit, unless it holds a single
\* operation that does not fit on its own.
C27_ChunksWithinLimit ==
    (eval.fn = "createChunkedShards" /\ eval.returned) =>
        \A j \in 1..Len(eval.shards) :
            \/ SerializedShardBytes(eval.shards[j]) + ENCRYPTION_OVERHEAD
                  <= eval.maxEncryptedBytes
            \/ Len(eval.shards[j].operations) = 1

\* C28: the shards createChunkedShards returns have the versions
\* startVersion, startVersion + 1, ... in order and the session id passed;
\* no shard is returned for an empty list of operations.
C28_ConsecutiveVersions ==
    (eval.fn = "createChunkedShards" /\ eval.returned) =>
        /\ \A j \in 1..Len(eval.shards) :
              /\ eval.shards[j].shard_version = eval.startVersion + (j - 1)
              /\ eval.shards[j].session_id = eval.sessionId
        /\ eval.operations = <<>> => eval.shards = <<>>

\* Three shards numbered from a start version other than 1.
C28_Witness ==
    /\ eval.fn = "createChunkedShards"
    /\ eval.returned
    /\ eval.startVersion > 1
    /\ eval.sessionId = LongSession
    /\ Len(eval.shards) = 3

----------------------------------------------------------------------------
(* Properties of the push command. *)

IdentityPushed(d) == GetMeta(d, "identity_pushed")

\* C29: an identity transaction is uploaded only while identity_pushed is
\* unset; identity_pushed is set only in the step in which that upload
\* returns, to the transaction id; a failed upload leaves it unset and the
\* next push uploads again; a store uploads its identity at most once.
C29_IdentityPushedOnce ==
    [][ /\ identityTxs' # identityTxs =>
              /\ IdentityPushed(db) = Null
              /\ identityTxs' = identityTxs + 1
              /\ IdentityPushed(db') = TxId(identityTxs')
        /\ IdentityPushed(db') # IdentityPushed(db) =>
              identityTxs' = identityTxs + 1
        /\ (pushCmd.pc = "identity" /\ identityTxs' = identityTxs) =>
              IdentityPushed(db') = Null
        /\ (pushCmd.pc = "idle" /\ pushCmd'.pc # "idle"
                /\ IdentityPushed(db) = Null) => pushCmd'.pc = "identity"
        /\ identityTxs' <= 1 ]_vars

\* The identity was uploaded, recorded, and the command went on to upload a
\* shard file.
C29_Witness ==
    /\ identityTxs = 1
    /\ IdentityPushed(db) = TxId(1)
    /\ BagCardinality(ledger) > 0

----------------------------------------------------------------------------
(* Properties of the upload loop of one push. *)

\* The shards of a push before the one whose upload is in flight.
Returned(p) == { p.shards[j] : j \in 1..(p.next - 1) }

\* C30: within one push the shards carry ascending versions and are uploaded
\* in that order: while the upload of a shard is in flight every earlier
\* shard of the push has its transaction on the ledger, a push moves to its
\* next shard only in the step in which the upload in flight returns, and a
\* push whose upload failed uploads nothing more.
C30_UploadsInVersionOrder ==
    [][ /\ \A i \in 1..Len(pushes') :
              LET p == pushes'[i]
              IN /\ p.next \in 1..Len(p.shards)
                 /\ \A j \in 1..(Len(p.shards) - 1) :
                       p.shards[j + 1].shard_version = p.shards[j].shard_version + 1
                 /\ \A shard \in Returned(p) :
                       BagIn(ShardTx(shard, "delta"), ledger')
        /\ \A i \in 1..Len(pushes) :
              (Len(pushes') = Len(pushes) /\ pushes'[i] # pushes[i]) =>
                 /\ pushes'[i].shards = pushes[i].shards
                 /\ pushes'[i].next = pushes[i].next + 1
                 /\ ledger' = ledger (+) SetToBag(
                        {ShardTx(pushes[i].shards[pushes[i].next], "delta")})
        /\ ledger' = ledger => \A i \in 1..Len(pushes') :
              \/ pushes'[i] \in { pushes[k] : k \in 1..Len(pushes) }
              \/ pushes'[i].next = 1 ]_vars

\* The first shard of a push of two has returned and the second is in flight.
C30_Witness ==
    \E i \in 1..Len(pushes) :
        /\ Len(pushes[i].shards) = 2
        /\ pushes[i].next = 2
        /\ BagIn(ShardTx(pushes[i].shards[1], "delta"), ledger)

----------------------------------------------------------------------------
(* Restores of a ledger with deltas and snapshots over two keys. *)

\* Shards of one operation on one of two keys, valid or wrongly signed.
SnapshotTxs ==
    { [version |-> v, type |-> t, fault |-> f,
       shard |-> [shard_version |-> v, timestamp |-> 0, session_id |-> Uuid,
                  operations |-> <<op>>]]
        : op \in { FactToUpsertOp([key |-> "global:k1", value |-> "short",
                                   scope |-> "global"]),
                   FactToUpsertOp([key |-> "project:p:k2", value |-> "short",
                                   scope |-> "project:p"]),
                   DeleteOp("global:k1") },
          v \in 1..MaxTagVersion, t \in Types, f \in {"ok", "badsig"} }

NextSnapshot ==
    \/ \E tx \in SnapshotTxs : LedgerUpload(tx)
    \/ Pull

SpecSnapshot == Init /\ [][NextSnapshot]_vars

----------------------------------------------------------------------------
(* Properties of the starting point of a restore. *)

\* The valid shards of a listing with a Version of at least floor, in its order.
ValidFrom(query, floor) ==
    LET kept == SelectSeq(query, LAMBDA tx : tx.fault = "ok" /\ tx.version >= floor)
    IN [i \in 1..Len(kept) |-> kept[i].shard]

Snapshots == { tx \in LedgerTxs : tx.type = "snapshot" }

----------------------------------------------------------------------------
(* Properties of the replay. *)

\* The places <<shard, operation>> of the operations replayed, and their order.
Places ==
    LET shards == SortByVersion(eval.shards)
    IN UNION { { <<i, j>> : j \in 1..Len(shards[i].operations) }
               : i \in 1..Len(shards) }

NotAfter(p, q) == p[1] < q[1] \/ (p[1] = q[1] /\ p[2] <= q[2])

\* C32: the replay result holds one fact for every key whose last operation
\* is an upsert and none for any other key; the fact has the value of that
\* last upsert, last_confirmed and source_session from the last upsert's
\* shard, created from the shard of the first upsert after the key's last
\* delete (of its first upsert when it was never deleted), and access_count 0.
C32_ReplayFoldsByKey ==
    (eval.fn = "replayShards" /\ eval.returned) =>
        LET shards == SortByVersion(eval.shards)
            OpAt(p) == shards[p[1]].operations[p[2]]
            On(k) == { p \in Places : OpAt(p).key = k }
            Last(k) == CHOOSE p \in On(k) : \A q \in On(k) : NotAfter(q, p)
            Live(k) == { p \in On(k) : \A q \in On(k) :
                            NotAfter(p, q) => OpAt(q).op = "upsert" }
            First(k) == CHOOSE p \in Live(k) : \A q \in Live(k) : NotAfter(p, q)
            Present == { k \in { OpAt(p).key : p \in Places } :
                            OpAt(Last(k)).op = "upsert" }
        IN /\ { eval.facts[i].key : i \in 1..Len(eval.facts) } = Present
           /\ Len(eval.facts) = Cardinality(Present)
           /\ \A i \in 1..Len(eval.facts) :
                 LET f == eval.facts[i]
                 IN /\ f.value = OpAt(Last(f.key)).value
                    /\ f.scope = OpAt(Last(f.key)).scope
                    /\ f.last_confirmed = shards[Last(f.key)[1]].timestamp
                    /\ f.source_session = shards[Last(f.key)[1]].session_id
                    /\ f.created = shards[First(f.key)[1]].timestamp
                    /\ f.access_count = 0

\* A key upserted and deleted by one shard and upserted again by a later
\* shard of another session and another time.
C32_Witness ==
    /\ eval.fn = "replayShards"
    /\ eval.returned
    /\ Len(eval.shards) = 2
    /\ Len(SortByVersion(eval.shards)[1].operations) = 2
    /\ SortByVersion(eval.shards)[1].timestamp
          # SortByVersion(eval.shards)[2].timestamp
    /\ SortByVersion(eval.shards)[1].session_id
          # SortByVersion(eval.shards)[2].session_id
    /\ eval.facts # <<>>
    /\ eval.facts[1].created = SortByVersion(eval.shards)[2].timestamp

----------------------------------------------------------------------------
(* Properties of the conversation push. *)

\* The chunks on the ledger cut from the ciphertext of one call.
PiecesOf(nonce) == { tx \in BagToSet(convLedger) : tx.cipher = nonce }

\* C33: a push whose clamped cursor equals the number of messages uploads
\* nothing; any other push uploads the messages from the clamped cursor on as
\* pieces of one ciphertext, none above 90 KiB, piece i of N tagged i/N and
\* following piece i - 1 byte for byte, all with the same Session, Offset and
\* Count, the last piece ending where the ciphertext ends.
C33_DeltaIsOneSegment ==
    [][ /\ \A i \in 1..Len(uploads') :
              LET p == uploads'[i]
                  n == Len(p.conversation)
              IN /\ p.offset \in 0..(n - 1)
                 /\ p.delta = [j \in 1..(n - p.offset) |-> p.conversation[p.offset + j]]
                 /\ p.total >= 1
        /\ (Len(uploads') = Len(uploads) + 1) =>
              LET c == Cursor(db)
                  n == Len(transcript.messages)
                  clamp == IF c < 0 THEN 0 ELSE IF c > n THEN n ELSE c
              IN /\ clamp # n
                 /\ uploads'[Len(uploads')].offset = clamp
                 /\ uploads'[Len(uploads')].conversation = transcript.messages
        /\ (fileStates' # fileStates /\ uploads' = uploads) =>
              (Cursor(db) >= Len(transcript.messages) /\ convLedger' = convLedger)
        /\ \A i \in 1..Len(uploads) :
              convLedger' = convLedger (+) SetToBag({ChunkTx(uploads[i])}) =>
                 LET p == uploads[i]
                     tx == ChunkTx(p)
                 IN /\ tx.chunkIndex = p.next /\ tx.chunkTotal = p.total
                    /\ tx.session = Session
                    /\ tx.offset = p.offset
                    /\ tx.count = Len(p.conversation) - p.offset
                    /\ tx.messages = p.delta
                    /\ tx.piece.to - tx.piece.from \in 1..(90 * 1024)
                    /\ tx.piece.from = IF p.next = 1 THEN 0
                                       ELSE (CHOOSE prev \in PiecesOf(p.nonce) :
                                               prev.chunkIndex = p.next - 1).piece.to
                    /\ (p.next = p.total) = (tx.piece.to = p.encrypted)
        /\ convLedger' # convLedger =>
              \E i \in 1..Len(uploads) :
                 convLedger' = convLedger (+) SetToBag({ChunkTx(uploads[i])}) ]_vars

\* Both pieces of a segment of three messages are on the ledger.
C33_Witness ==
    \E a, b \in BagToSet(convLedger) :
        /\ a.cipher = b.cipher
        /\ a.chunkIndex = 1 /\ b.chunkIndex = 2 /\ b.chunkTotal = 2
        /\ a.count = 3
        /\ a.piece.to = b.piece.from

----------------------------------------------------------------------------
(* Properties of pullConversations. *)

\* The chunks of a listing that carry a grouping key.
GroupOf(infos, key) == { i \in 1..Len(infos) : GroupKey(infos[i]) = key }

\* The group has, for the total N its chunks declare, exactly one chunk of
\* each index 1..N and no other chunk.
Bijective(infos, key) ==
    \E N \in 1..Len(infos) :
        /\ Cardinality(GroupOf(infos, key)) = N
        /\ \A i \in GroupOf(infos, key) : infos[i].chunkTotal = N
        /\ \A n \in 1..N : \E i \in GroupOf(infos, key) : infos[i].chunkIndex = n

\* C34: the segments a pull reconstructs are those of the groups of equal
\* Session, Offset and Timestamp whose chunk indices are exactly 1..N for the
\* declared total N and whose chunks are the pieces of one ciphertext: a group
\* with a missing or a repeated index or with a number of chunks other than N
\* gives no segment, and every other group gives its segment all the same.
C34_OnlyCompleteGroups ==
    eval.fn = "pullConversations" =>
        LET infos == eval.infos
            keys == { GroupKey(infos[i]) : i \in 1..Len(infos) }
            whole == { k \in keys :
                         /\ Bijective(infos, k)
                         /\ \A i, j \in GroupOf(infos, k) :
                               infos[i].cipher = infos[j].cipher }
        IN /\ { <<seg.session, seg.offset, seg.timestamp>>
                  : seg \in eval.segmentPayloads } = whole
           /\ Cardinality(eval.segmentPayloads) = Cardinality(whole)
           /\ \A seg \in eval.segmentPayloads :
                 \A i \in GroupOf(infos, <<seg.session, seg.offset, seg.timestamp>>) :
                    seg.messages = infos[i].messages

\* A pull of one complete group and one group with a missing index.
C34_Witness ==
    /\ eval.fn = "pullConversations"
    /\ Len(eval.infos) = 2
    /\ eval.infos[1].chunkTotal = 2
    /\ eval.infos[2].chunkTotal = 1
    /\ eval.infos[1].session = eval.infos[2].session
    /\ eval.infos[1].offset # eval.infos[2].offset
    /\ Cardinality(eval.segmentPayloads) = 1
    /\ eval.conversations[1].messages = eval.infos[2].messages

\* The messages of segments of distinct offsets, in ascending offset order.
RECURSIVE ConcatAscending(_)
ConcatAscending(segs) ==
    IF segs = {} THEN <<>>
    ELSE LET first == CHOOSE seg \in segs : \A other \in segs : seg.offset <= other.offset
         IN first.messages \o ConcatAscending(segs \ {first})

\* C35: a pull returns one conversation for every session that has a
\* reconstructed segment; its messages are those of the session's segments in
\* ascending offset order, for every offset only the segment with the
\* earliest timestamp being used, and its startedAt and updatedAt are the
\* least and the greatest over the segments used.
C35_StitchedByOffset ==
    eval.fn = "pullConversations" =>
        LET segs == eval.segmentPayloads
            convs == eval.conversations
            Used(sid) == { seg \in segs :
                             /\ seg.session = sid
                             /\ \A other \in segs :
                                   (other.session = sid /\ other.offset = seg.offset)
                                      => seg.timestamp <= other.timestamp }
        IN /\ { convs[n].id : n \in 1..Len(convs) } = { seg.session : seg \in segs }
           /\ Len(convs) = Cardinality({ seg.session : seg \in segs })
           /\ \A n \in 1..Len(convs) :
                 LET used == Used(convs[n].id)
                 IN /\ convs[n].messages = ConcatAscending(used)
                    /\ \E seg \in used : convs[n].startedAt = seg.startedAt
                    /\ \A seg \in used : convs[n].startedAt <= seg.startedAt
                    /\ \E seg \in used : convs[n].updatedAt = seg.updatedAt
                    /\ \A seg \in used : convs[n].updatedAt >= seg.updatedAt

\* A session with two segments of one offset, parsed at different times: the
\* earlier upload is the one used.
C35_Witness ==
    /\ eval.fn = "pullConversations"
    /\ Len(eval.conversations) = 1
    /\ \E a, b \in eval.segmentPayloads :
          /\ a.session = b.session /\ a.offset = b.offset
          /\ a.timestamp < b.timestamp
          /\ a.startedAt # b.startedAt
          /\ eval.conversations[1].startedAt = a.startedAt

----------------------------------------------------------------------------
(* Properties of the conversation push and pull together. *)

\* The ciphertexts of which every piece is on the ledger.
UploadedWhole ==
    { c \in { tx.cipher : tx \in BagToSet(convLedger) } :
        \A tx \in PiecesOf(c) :
            \A n \in 1..tx.chunkTotal : \E piece \in PiecesOf(c) : piece.chunkIndex = n }

\* C36: a segment of which every chunk was uploaded is reconstructed by a
\* pull, whatever the seconds at which its chunks were uploaded.
C36_UploadedSegmentIsPulled ==
    \A c \in UploadedWhole :
        \A infos \in QueryShards(convLedger) :
            \E seg \in SegmentPayloads(infos) :
                \A tx \in PiecesOf(c) :
                    /\ seg.offset = tx.offset
                    /\ seg.messages = tx.messages
                    /\ seg.timestamp = tx.timestamp

\* The messages a pull of the listing rebuilds for the session.
Rebuilt(infos) ==
    IF PullConversations(infos) = <<>> THEN <<>>
    ELSE PullConversations(infos)[1].messages

\* C37: whatever was appended and pushed, the conversation a pull rebuilds is
\* a prefix of the local transcript and holds every message below the cursor.
C37_PulledIsPrefixUpToCursor ==
    \A infos \in QueryShards(convLedger) :
        /\ Len(Rebuilt(infos)) <= Len(transcript.messages)
        /\ Rebuilt(infos) = SubSeq(transcript.messages, 1, Len(Rebuilt(infos)))
        /\ Len(Rebuilt(infos)) >= Cursor(db)

----------------------------------------------------------------------------
(* Properties of the statements after the upload loop. *)

\* C38: whenever nothing is dirty or pending, current_version is not below
\* any version on the ledger, also after the process stopped between
\* clearDirtyState and the write of current_version.
C38_CleanKnowsUploadedVersions ==
    Clean(db) => \A tx \in LedgerTxs : tx.version <= CurrentVersion(db)

----------------------------------------------------------------------------
(* Properties of the background sync of a wallet made by initCommand. *)

\* C39: whenever a data shard of the wallet is on the ledger, the wallet's
\* identity record is on the ledger and identity_pushed is set, and no
\* restore of that ledger has failed at the identity step.
C39_IdentityBeforeFirstShard ==
    ledger # EmptyBag =>
        /\ identity = "ok"
        /\ IdentityPushed(db) # Null
        /\ restored.status # "IdentityMissing"

----------------------------------------------------------------------------
(* Properties of the writer under fairness. *)

\* The store holds the fact with this value.
Held(key, value) == HasFact(db, key) /\ GetFact(db, key).value = value

\* Some uploaded shard upserts the key with this value.
UploadedValue(key, value) ==
    \E tx \in LedgerTxs :
        \E n \in 1..Len(tx.shard.operations) :
            /\ tx.shard.operations[n].op = "upsert"
            /\ tx.shard.operations[n].key = key
            /\ tx.shard.operations[n].value = value

\* The key was deleted and not stored again.
Deleted(key) == key \in deletedKeys /\ ~HasFact(db, key)

\* The ledger of the model takes no further transaction.
LedgerFull == BagCardinality(ledger) >= MaxLedger

\* A call of store_fact or delete_fact.
Mutation ==
    \/ \E in \in StoreInputs : StoreFact(in[1], in[2], in[3])
    \/ \E k \in Keys : DeleteFactTool(k)

\* A value the store holds is uploaded in the end, unless it is replaced.
UpsertsReachLedger ==
    \A k \in Keys : \A v \in {"short", "long"} :
        Held(k, v) ~> (UploadedValue(k, v) \/ ~Held(k, v) \/ LedgerFull)

\* A deletion is uploaded in the end, unless the key is stored again.
DeletesReachLedger ==
    \A k \in Keys :
        Deleted(k) ~> (Uploaded(DeleteOp(k)) \/ ~Deleted(k) \/ LedgerFull)

\* Once the mutations have stopped the dirty state empties and stays empty.
CleanInTheEnd ==
    <>[][~Mutation]_vars => <>[](Clean(db) \/ LedgerFull)

\* C40: under fairness every value stored and every key deleted reaches an
\* uploaded shard, and once the mutations stop the dirty facts and pending
\* deletions become empty for good (as long as the ledger takes uploads).
C40_MutationsReachLedger ==
    /\ UpsertsReachLedger
    /\ DeletesReachLedger
    /\ CleanInTheEnd

====
